---- MODULE Spec2Model ----
(***************************************************************************)
(* The geometry layer of kuhl-util.c: kuhl_geometry structs, the device    *)
(* objects they own (vertex arrays, buffers), the objects they only refer  *)
(* to (programs, textures), and the device's global binding registers.     *)
(***************************************************************************)
EXTENDS Integers, Sequences, FiniteSets, TLC

\* ------------------------------------------------------------------ bounds
NumNodes == 3      \* kuhl_geometry structs the caller owns
MaxVAOs == 2       \* vertex-array names the device hands out
MaxBuffers == 3    \* buffer names the device hands out
MaxTexIds == 1     \* texture names the device hands out

\* ------------------------------------------------------- program constants
NULL == 0
MAX_ATTRIBUTES == 2
MAX_TEXTURES == 2
MAX_BONES == 5
textureIdMapMaxSize == 2

Nodes == 1..NumNodes
NumUnits == MAX_TEXTURES + 1
Units == 0..(NumUnits - 1)

\* The shader programs of the caller and what glGetAttribLocation and
\* glGetUniformLocation report as active in each of them.
Programs == {1, 2}
AttribNames == {"in_Position", "in_Normal", "in_Color"}
SamplerNames == {"tex", "tex2", "tex3"}

ActiveAttribs(p) ==
  IF p = 1 THEN {"in_Position", "in_Normal", "in_Color"} ELSE {"in_Position"}

ActiveSamplers(p) ==
  IF p = 1 THEN {"tex", "tex2", "tex3"} ELSE {"tex"}

VARIABLES
  geom,          \* the kuhl_geometry structs
  liveVAOs,      \* names for which glIsVertexArray holds
  liveBuffers,   \* names for which glIsBuffer holds
  livePrograms,  \* names for which glIsProgram holds
  liveTextures,  \* names for which glIsTexture holds
  dev,           \* the device's global binding registers
  bufOwner,      \* per buffer name: the struct it was generated for
  vaoOwner,      \* per vertex-array name: the struct it was generated for
  lastDraw,      \* the latest call of kuhl_geometry_draw, if it was the latest call:
                 \* its argument, the bindings recorded at lines 1186-1193 and
                 \* the draw calls issued; and the name that the latest call, if
                 \* it was kuhl_geometry_attrib, turned down at line 918
  delStack,      \* the active kuhl_geometry_delete frames, innermost last
  exited,        \* exit(EXIT_FAILURE) was called
  textureIdMap,  \* the file-scope array textureIdMap, its textureIdMapSize used
                 \* entries: records of textureFileName and textureID
  lastCall       \* the latest call into the importer or the animation code:
                 \* what it was given and what it computed

vars == <<geom, liveVAOs, liveBuffers, livePrograms, liveTextures, dev,
          bufOwner, vaoOwner, lastDraw, delStack, exited, textureIdMap, lastCall>>

\* A float[16] holds a matrix column by column, from index 0 on.
IdentityMatrix == [i \in 0..15 |-> IF i % 5 = 0 THEN 1 ELSE 0]

\* The matrices of a struct are products of the matrices of nodes, of
\* channels and of bones. Such a product is held as the sequence of its
\* factors, in their order, the identity left out: two products with the same
\* factors in the same order are the same matrix. A factor is [matrix |-> m]
\* for a float[16] m, [anim |-> a] for the values of a channel at a time,
\* [zero |-> TRUE] for sixteen zeros, or [stale |-> TRUE] for what memory
\* held before it was handed out.
\* mat4f_identity:
Mat4fIdentity == <<>>

\* The matrix of sixteen zeros.
Mat4fZero == << [zero |-> TRUE] >>

\* The product that is the single matrix f.
Mat4fFactor(f) == IF f = [matrix |-> IdentityMatrix] THEN <<>> ELSE <<f>>

\* mat4f_mult_mat4f_new on two products: a times b.
Mat4fMultProducts(a, b) == a \o b

\* g->bones of NULL: the code makes no kuhl_bonemat of count 0.
NoBones == [count |-> 0]

\* A struct in zeroed storage, before kuhl_geometry_new. attribs and textures
\* hold the slots below attrib_count and texture_count: no function reads a
\* slot at or above the count.
ZeroGeom ==
  [vao |-> 0, program |-> 0, vertex_count |-> 0, primitive_type |-> "GL_POINTS",
   attrib_count |-> 0, attribs |-> <<>>,
   texture_count |-> 0, textures |-> <<>>,
   indices |-> <<>>, indices_len |-> 0, indices_bufferobject |-> 0,
   has_been_drawn |-> 0, assimp_node |-> NULL, assimp_scene |-> NULL,
   matrix |-> Mat4fZero, bones |-> NoBones,
   next |-> NULL]

ZeroDev ==
  [program |-> 0, activeTexture |-> 0, texture |-> [u \in Units |-> 0],
   vao |-> 0, arrayBuffer |-> 0]

\* No call of kuhl_geometry_draw is the latest call.
NoDraw == [head |-> NULL, prev |-> ZeroDev, calls |-> <<>>, inactive |-> ""]

\* No call into the importer or the animation code was made yet.
NoCall == [op |-> "none"]

Init ==
  /\ geom = [n \in Nodes |-> ZeroGeom]
  /\ liveVAOs = {}
  /\ liveBuffers = {}
  /\ livePrograms = Programs
  /\ liveTextures = {}
  /\ dev = ZeroDev
  /\ bufOwner = [b \in 1..MaxBuffers |-> 0]
  /\ vaoOwner = [v \in 1..MaxVAOs |-> 0]
  /\ lastDraw = NoDraw
  /\ textureIdMap = <<>>
  /\ lastCall = NoCall
  /\ delStack = <<>>
  /\ exited = FALSE

\* --------------------------------------------------------------- the device

\* glGenBuffers / glGenVertexArrays / glGenTextures return a name that is not
\* in use. Names that are not in use are interchangeable, so the least one
\* stands for all of them.
Least(S) == IF S = {} THEN {} ELSE {CHOOSE x \in S : \A y \in S : x <= y}
FreeBuffers == Least((1..MaxBuffers) \ liveBuffers)
FreeVAOs == Least((1..MaxVAOs) \ liveVAOs)
FreeTextures == Least((1..MaxTexIds) \ liveTextures)

\* glGetAttribLocation: -1 for a name that is not active (or no program).
AttribLocation(p, name) ==
  IF p \in livePrograms /\ name \in ActiveAttribs(p)
    THEN CASE name = "in_Position" -> 0
           [] name = "in_Normal" -> 1
           [] OTHER -> 2
    ELSE -1

\* glGetUniformLocation of a sampler: -1 for a name that is not active.
SamplerLocation(p, name) ==
  IF p \in livePrograms /\ name \in ActiveSamplers(p)
    THEN CASE name = "tex" -> 0
           [] name = "tex2" -> 1
           [] OTHER -> 2
    ELSE -1

\* glGetUniformLocation of "GeomTransform": program 1 has the uniform,
\* program 2 has not.
GeomTransformLocation(p) ==
  IF p \in livePrograms /\ p = 1 THEN 3 ELSE -1

\* glDeleteBuffers: a deleted buffer that is bound is unbound.
UnbindDeletedBuffers(d, bs) ==
  IF d.arrayBuffer \in bs THEN [d EXCEPT !.arrayBuffer = 0] ELSE d

\* glDeleteVertexArrays: a deleted vertex array that is bound is unbound.
UnbindDeletedVAO(d, v) ==
  IF d.vao = v THEN [d EXCEPT !.vao = 0] ELSE d


\* glBindVertexArray: binding a name that is no vertex array is an error and
\* leaves the binding as it was.
BindVertexArray(d, v) ==
  IF v = 0 \/ v \in liveVAOs THEN [d EXCEPT !.vao = v] ELSE d

\* Writing slot i (counted from 0) of an array held as its used prefix.
SetSlot(slots, i, rec) ==
  IF i < Len(slots) THEN [slots EXCEPT ![i + 1] = rec] ELSE Append(slots, rec)

\* ------------------------------------------------------- kuhl_geometry_new
\* A kuhl_geometry_new that leaves has_been_drawn and next as they were.
NewFields_KeepDrawn(G, v, program, vertexCount, primitive_type) ==
  [G EXCEPT !.vao = v, !.program = program, !.vertex_count = vertexCount,
            !.primitive_type = primitive_type,
            !.attrib_count = 0, !.attribs = <<>>,
            !.texture_count = 0, !.textures = <<>>,
            !.indices = <<>>, !.indices_len = 0, !.indices_bufferobject = 0,
            !.matrix = Mat4fIdentity,
            !.assimp_node = NULL, !.assimp_scene = NULL, !.bones = NoBones]

\* Lines 1051-1072: the fields of the struct afterwards.
NewFields(G, v, program, vertexCount, primitive_type) ==
  [G EXCEPT !.vao = v, !.program = program, !.vertex_count = vertexCount,
            !.primitive_type = primitive_type,
            !.attrib_count = 0, !.attribs = <<>>,
            !.texture_count = 0, !.textures = <<>>,
            !.indices = <<>>, !.indices_len = 0, !.indices_bufferobject = 0,
            !.matrix = Mat4fIdentity, !.has_been_drawn = 0,
            !.assimp_node = NULL, !.assimp_scene = NULL, !.bones = NoBones,
            !.next = NULL]

New(n, program, vertexCount, primitive_type) ==
  \E v \in FreeVAOs :
    /\ liveVAOs' = liveVAOs \cup {v}
    /\ vaoOwner' = [vaoOwner EXCEPT ![v] = n]
    /\ dev' = [dev EXCEPT !.vao = 0]
    /\ IF program \notin livePrograms
         THEN /\ geom' = [geom EXCEPT ![n].vao = v]
              /\ exited' = TRUE
         ELSE /\ geom' = [geom EXCEPT ![n] = NewFields(@, v, program, vertexCount, primitive_type)]
              /\ UNCHANGED exited
    /\ lastDraw' = NoDraw
    /\ UNCHANGED <<liveBuffers, livePrograms, liveTextures, bufOwner, delStack,
                   textureIdMap, lastCall>>

\* ------------------------------------- kuhl_read_texture_rgba_array_wrap
\* The successful upload: a new texture, bound and then unbound on the active unit.
ReadTexture ==
  \E t \in FreeTextures :
    /\ liveTextures' = liveTextures \cup {t}
    /\ dev' = [dev EXCEPT !.texture[dev.activeTexture] = 0]
    /\ lastDraw' = NoDraw
    /\ UNCHANGED <<geom, liveVAOs, liveBuffers, livePrograms, bufOwner, vaoOwner,
                   delStack, exited,
                   textureIdMap, lastCall>>

\* ----------------------------------------------------- kuhl_delete_program
DeleteProgram(program) ==
  IF program \notin livePrograms
    THEN UNCHANGED vars
    ELSE /\ livePrograms' = livePrograms \ {program}
         /\ lastDraw' = NoDraw
         /\ UNCHANGED <<geom, liveVAOs, liveBuffers, liveTextures, dev, bufOwner,
                        vaoOwner, delStack, exited,
                        textureIdMap, lastCall>>

\* ---------------------------------------------- kuhl_geometry_attrib_index
\* The index (from 0) of the attribute called name, -1 if there is none.
AttribIndex(G, name) ==
  LET hits == {i \in 1..Len(G.attribs) : i <= G.attrib_count /\ G.attribs[i].name = name}
  IN IF hits = {} THEN -1
     ELSE (CHOOSE i \in hits : \A j \in hits : i <= j) - 1

\* ---------------------------------------------------- kuhl_geometry_attrib
\* The overflow test placed one slot too late.
AttribOverflow_Late(destIndex) == destIndex = MAX_ATTRIBUTES + 1

\* The test that stops the process instead of writing past the array.
AttribOverflow(destIndex) == destIndex = MAX_ATTRIBUTES

\* An overwrite that forgets glDeleteBuffers.
AttribReleased_None(G, destIndex) == {}

\* The buffers glDeleteBuffers releases when slot destIndex is overwritten.
AttribReleased(G, destIndex) ==
  IF G.attribs[destIndex + 1].bufferobject \in liveBuffers
    THEN {G.attribs[destIndex + 1].bufferobject}
    ELSE {}

\* The early returns without the test of the attribute location.
AttribRejected_NoLocation(n, hasData, components, name) ==
  \/ name = ""
  \/ n = NULL
  \/ ~hasData
  \/ components = 0
  \/ geom[n].vao \notin liveVAOs

\* The early returns of lines 882-923.
AttribRejected(n, hasData, components, name) ==
  \/ name = ""
  \/ n = NULL
  \/ ~hasData
  \/ components = 0
  \/ geom[n].vao \notin liveVAOs
  \/ AttribLocation(geom[n].program, name) = -1

\* The call got as far as glGetAttribLocation (line 917) and the name is not
\* active in the program of the struct.
AttribInactive(n, hasData, components, name) ==
  /\ name # ""
  /\ n # NULL
  /\ hasData
  /\ components # 0
  /\ geom[n].vao \in liveVAOs
  /\ AttribLocation(geom[n].program, name) = -1

\* Lines 904-907: the call got as far as glIsVertexArray and the message of
\* line 906 is made. Its format has %s and then %d, its arguments are
\* geom->vao and then name: the number in geom->vao is read as the address of
\* a string. For 0 the C library writes "(null)"; any other number is the
\* address of no string.
AttribMsgUndefined(n, hasData, components, name) ==
  /\ name # ""
  /\ n # NULL
  /\ hasData
  /\ components # 0
  /\ geom[n].vao \notin liveVAOs
  /\ geom[n].vao # 0

\* Lines 880-992. Reading a string at an address that holds none is
\* undefined: the process may go on, or be stopped by the system.
Attrib(n, hasData, components, name) ==
  IF AttribRejected(n, hasData, components, name)
    THEN IF AttribInactive(n, hasData, components, name)
           THEN /\ lastDraw' = [NoDraw EXCEPT !.inactive = name]
                /\ UNCHANGED <<geom, liveVAOs, liveBuffers, livePrograms,
                               liveTextures, dev, bufOwner, vaoOwner, delStack,
                               exited,
                               textureIdMap, lastCall>>
           ELSE IF AttribMsgUndefined(n, hasData, components, name)
             THEN /\ exited' \in {FALSE, TRUE}
                  /\ UNCHANGED <<geom, liveVAOs, liveBuffers, livePrograms,
                                 liveTextures, dev, bufOwner, vaoOwner, lastDraw,
                                 delStack, textureIdMap, lastCall>>
           ELSE UNCHANGED vars
    ELSE
      LET G == geom[n]
          found == AttribIndex(G, name)
          destIndex == IF found < 0 THEN G.attrib_count ELSE found
          count == IF found < 0 THEN G.attrib_count + 1 ELSE G.attrib_count
          released == IF found < 0 THEN {} ELSE AttribReleased(G, destIndex)
      IN IF AttribOverflow(destIndex)
           THEN /\ geom' = [geom EXCEPT ![n].attrib_count = count]
                /\ exited' = TRUE
                /\ lastDraw' = NoDraw
                /\ UNCHANGED <<liveVAOs, liveBuffers, livePrograms, liveTextures, dev,
                               bufOwner, vaoOwner, delStack,
                               textureIdMap, lastCall>>
           ELSE \E b \in FreeBuffers \cup released :
                /\ geom' = [geom EXCEPT ![n].attrib_count = count,
                                        ![n].attribs = SetSlot(@, destIndex,
                                            [name |-> name, bufferobject |-> b])]
                /\ liveBuffers' = (liveBuffers \ released) \cup {b}
                /\ bufOwner' = [x \in DOMAIN bufOwner |->
                                  IF x = b THEN n
                                  ELSE IF x \in released THEN 0 ELSE bufOwner[x]]
                /\ dev' = [dev EXCEPT !.vao = 0, !.arrayBuffer = 0]
                /\ lastDraw' = NoDraw
                /\ UNCHANGED <<liveVAOs, livePrograms, liveTextures, vaoOwner,
                               delStack, exited,
                               textureIdMap, lastCall>>

\* --------------------------------------------------- kuhl_geometry_texture
\* The slot (from 0) the binding goes to: the last slot of that name, else a new one.
TextureDestIndex(G, name) ==
  LET hits == {i \in 1..Len(G.textures) : i <= G.texture_count /\ G.textures[i].name = name}
  IN IF hits = {} THEN G.texture_count
     ELSE (CHOOSE i \in hits : \A j \in hits : i >= j) - 1

TextureOverflow(destIndex) == destIndex = MAX_TEXTURES

\* Lines 656-699 on one struct: the struct afterwards, and whether exit was called.
TextureNode(G, texture, name) ==
  IF G.vao \notin liveVAOs \/ SamplerLocation(G.program, name) = -1
    THEN [g |-> G, exited |-> FALSE]
    ELSE
      LET destIndex == TextureDestIndex(G, name)
          count == IF destIndex = G.texture_count THEN G.texture_count + 1
                   ELSE G.texture_count
      IN IF TextureOverflow(destIndex)
           THEN [g |-> [G EXCEPT !.texture_count = count], exited |-> TRUE]
           ELSE [g |-> [G EXCEPT !.texture_count = count,
                                 !.textures = SetSlot(@, destIndex,
                                     [name |-> name, textureId |-> texture])],
                 exited |-> FALSE]

\* A call that leaves the rest of the list alone whatever the options say.
TextureList_HeadOnly(gs, n, texture, name, fullList) ==
  [geom |-> [gs EXCEPT ![n] = TextureNode(gs[n], texture, name).g],
   exited |-> TextureNode(gs[n], texture, name).exited]

\* Lines 653-699: with KG_FULL_LIST the rest of the list first, then this struct.
RECURSIVE TextureList(_, _, _, _, _)
TextureList(gs, n, texture, name, fullList) ==
  LET rest == IF fullList /\ gs[n].next # NULL
                THEN TextureList(gs, gs[n].next, texture, name, fullList)
                ELSE [geom |-> gs, exited |-> FALSE]
  IN IF rest.exited THEN rest
     ELSE LET r == TextureNode(rest.geom[n], texture, name)
          IN [geom |-> [rest.geom EXCEPT ![n] = r.g], exited |-> r.exited]

\* The early returns of lines 632-651.
TextureRejected(n, texture, name) ==
  \/ name = ""
  \/ n = NULL
  \/ texture = 0
  \/ texture \notin liveTextures

Texture(n, texture, name, fullList) ==
  IF TextureRejected(n, texture, name)
    THEN UNCHANGED vars
    ELSE LET r == TextureList(geom, n, texture, name, fullList)
         IN /\ geom' = r.geom
            /\ exited' = r.exited
            /\ lastDraw' = NoDraw
            /\ UNCHANGED <<liveVAOs, liveBuffers, livePrograms, liveTextures, dev,
                           bufOwner, vaoOwner, delStack,
                           textureIdMap, lastCall>>

\* ------------------------------------------------ kuhl_geometry_attrib_get
\* Lines 750-795. name is "" for NULL; mapped is whether the buffer is mapped
\* already or glMapBuffer gives a pointer. The caller passes a size pointer.
AttribGet(n, name, mapped) ==
  IF n = NULL \/ name = "" \/ AttribIndex(geom[n], name) < 0
    THEN UNCHANGED vars
    ELSE \E attrib \in {geom[n].attribs[AttribIndex(geom[n], name) + 1]} :
         IF attrib.bufferobject \notin liveBuffers \/ geom[n].vao \notin liveVAOs
           THEN UNCHANGED vars
           ELSE /\ dev' = IF mapped
                            THEN [dev EXCEPT !.vao = 0, !.arrayBuffer = 0]
                            ELSE [dev EXCEPT !.vao = geom[n].vao,
                                             !.arrayBuffer = attrib.bufferobject]
                /\ lastDraw' = NoDraw
                /\ UNCHANGED <<geom, liveVAOs, liveBuffers, livePrograms,
                               liveTextures, bufOwner, vaoOwner, delStack, exited,
                               textureIdMap, lastCall>>

\* --------------------------------------------------- kuhl_geometry_program
\* Lines 820-859 on one struct; st is [geom, dev, exited]. kuhl_get_attribute
\* stops the process when asked about a program that is none.
ProgramNode(st, n, program) ==
  LET G == st.geom[n]
      gs == [st.geom EXCEPT ![n].program = program]
      bound == BindVertexArray(st.dev, G.vao)
  IN IF G.attrib_count > 0 /\ program \notin livePrograms
       THEN [geom |-> gs,
             dev |-> [bound EXCEPT !.arrayBuffer = G.attribs[1].bufferobject],
             exited |-> TRUE]
       ELSE [geom |-> gs,
             dev |-> [bound EXCEPT !.vao = 0, !.arrayBuffer = 0],
             exited |-> FALSE]

RECURSIVE ProgramList(_, _, _, _)
ProgramList(st, n, program, fullList) ==
  IF n = NULL THEN st
  ELSE LET rest == IF fullList
                     THEN ProgramList(st, st.geom[n].next, program, fullList)
                     ELSE st
       IN IF rest.exited THEN rest ELSE ProgramNode(rest, n, program)

Program(n, program, fullList) ==
  LET r == ProgramList([geom |-> geom, dev |-> dev, exited |-> FALSE],
                       n, program, fullList)
  IN /\ geom' = r.geom
     /\ dev' = r.dev
     /\ exited' = r.exited
     /\ lastDraw' = NoDraw
     /\ UNCHANGED <<liveVAOs, liveBuffers, livePrograms, liveTextures, bufOwner,
                    vaoOwner, delStack,
                    textureIdMap, lastCall>>

\* --------------------------------------------------- kuhl_geometry_indices
\* The primitive-arity test without its GL_LINES branch.
IndicesArityError_TrianglesOnly(G, indexCount) ==
  G.primitive_type = "GL_TRIANGLES" /\ indexCount % 3 # 0

\* The primitive-arity test of lines 1094-1103.
IndicesArityError(G, indexCount) ==
  \/ G.primitive_type = "GL_TRIANGLES" /\ indexCount % 3 # 0
  \/ G.primitive_type = "GL_LINES" /\ indexCount % 2 # 0

\* indices is the array passed in; the empty sequence stands for NULL or a count of 0.
Indices(n, indices) ==
  IF Len(indices) = 0
    THEN UNCHANGED vars
    ELSE IF IndicesArityError(geom[n], Len(indices))
      THEN /\ exited' = TRUE
           /\ lastDraw' = NoDraw
           /\ UNCHANGED <<geom, liveVAOs, liveBuffers, livePrograms, liveTextures,
                          dev, bufOwner, vaoOwner, delStack,
                          textureIdMap, lastCall>>
      ELSE \E b \in FreeBuffers :
           /\ geom' = [geom EXCEPT ![n].indices_len = Len(indices),
                                   ![n].indices = indices,
                                   ![n].indices_bufferobject = b]
           /\ liveBuffers' = liveBuffers \cup {b}
           /\ bufOwner' = [bufOwner EXCEPT ![b] = n]
           /\ dev' = [BindVertexArray(dev, geom[n].vao) EXCEPT !.vao = 0]
           /\ lastDraw' = NoDraw
           /\ UNCHANGED <<liveVAOs, livePrograms, liveTextures, vaoOwner, delStack,
                          exited,
                          textureIdMap, lastCall>>


\* ---------------------------------------------- kuhl_geometry_sanity_check
\* Lines 418-452: the attribute passes. Every slot in use has a name.
SanityCheckAttribute(bufferobject, name, program) ==
  IF AttribLocation(program, name) # -1
    THEN bufferobject # 0
    ELSE bufferobject \notin liveBuffers

\* Lines 465-519: the struct passes, that is, exit is not called. A program
\* built by kuhl_create_program validates.
SanityCheck(G) ==
  /\ G.program # 0
  /\ G.program \in livePrograms
  /\ G.vertex_count >= 1
  /\ G.primitive_type \in {"GL_POINTS", "GL_LINE_STRIP", "GL_LINE_LOOP", "GL_LINES",
                            "GL_TRIANGLE_STRIP", "GL_TRIANGLE_FAN", "GL_TRIANGLES"}
  /\ \A i \in 1..Len(G.attribs) :
       i <= G.attrib_count =>
         SanityCheckAttribute(G.attribs[i].bufferobject, G.attribs[i].name, G.program)

\* ------------------------------------------------------ kuhl_geometry_draw
\* Lines 1210-1237: slot i (from 0) of the textures goes to texture unit i,
\* unless it is no texture or the program has no sampler of its name.
RECURSIVE BindTextures(_, _, _)
BindTextures(G, d, i) ==
  IF i >= G.texture_count THEN d
  ELSE LET tex == G.textures[i + 1]
       IN IF tex.textureId \notin liveTextures \/ SamplerLocation(G.program, tex.name) = -1
            THEN BindTextures(G, d, i + 1)
            ELSE BindTextures(G, [d EXCEPT !.activeTexture = i,
                                           !.texture[i] = tex.textureId], i + 1)

\* A loop that counts the textures it binds and uses the count as the unit.
RECURSIVE TextureUnits_Counted(_, _)
TextureUnits_Counted(G, i) ==
  IF i >= G.texture_count THEN <<>>
  ELSE LET tex == G.textures[i + 1]
           skipped(t) == t.textureId \notin liveTextures
                           \/ SamplerLocation(G.program, t.name) = -1
           count == Cardinality({j \in 1..i : ~skipped(G.textures[j])})
       IN IF skipped(tex)
            THEN TextureUnits_Counted(G, i + 1)
            ELSE <<[name |-> tex.name, uniform |-> count, unit |-> count,
                    textureId |-> tex.textureId]>> \o TextureUnits_Counted(G, i + 1)

\* Lines 1210-1237: the glUniform1i, glActiveTexture and glBindTexture calls
\* of the loop, in order: slot i (from 0) that is not skipped sets the sampler
\* uniform of its name to i and binds its texture on unit i.
RECURSIVE TextureUnits(_, _)
TextureUnits(G, i) ==
  IF i >= G.texture_count THEN <<>>
  ELSE LET tex == G.textures[i + 1]
       IN IF tex.textureId \notin liveTextures \/ SamplerLocation(G.program, tex.name) = -1
            THEN TextureUnits(G, i + 1)
            ELSE <<[name |-> tex.name, uniform |-> i, unit |-> i,
                    textureId |-> tex.textureId]>> \o TextureUnits(G, i + 1)

\* Lines 1292-1302: every attribute buffer is bound to GL_ARRAY_BUFFER in turn,
\* and 0 is bound after each.
UnmapAttribs(G, d) ==
  IF G.attrib_count > 0 THEN [d EXCEPT !.arrayBuffer = 0] ELSE d

\* Lines 1326-1335: texture 0 is bound on the units of all slots.
RECURSIVE UnbindTextures(_, _, _)
UnbindTextures(G, d, i) ==
  IF i >= G.texture_count THEN d
  ELSE UnbindTextures(G, [d EXCEPT !.activeTexture = i, !.texture[i] = 0], i + 1)

\* A restore that forgets glUseProgram(previouslyUsedProgram).
RestoreBindings_NoProgram(prev, d) ==
  [d EXCEPT !.activeTexture = prev.activeTexture,
            !.texture[prev.activeTexture] = prev.texture[prev.activeTexture],
            !.vao = prev.vao]

\* Lines 1342-1353: the state recorded at lines 1186-1193 is set again.
RestoreBindings(prev, d) ==
  [d EXCEPT !.activeTexture = prev.activeTexture,
            !.texture[prev.activeTexture] = prev.texture[prev.activeTexture],
            !.program = prev.program,
            !.vao = prev.vao]

\* A draw that prints the message whenever the uniform is missing and the
\* matrix is not the identity.
MissingTransformMessage_EveryDraw(G) ==
  /\ GeomTransformLocation(G.program) = -1
  /\ G.matrix # Mat4fIdentity

\* Lines 1260-1283: the message about the missing GeomTransform is printed.
\* The sum of line 1270 is above 0.00001 for a product that is not the identity.
MissingTransformMessage(G) ==
  /\ GeomTransformLocation(G.program) = -1
  /\ G.matrix # Mat4fIdentity
  /\ G.has_been_drawn = 0

\* A test that looks at the program alone.
DrawInvalid_ProgramOnly(G) == G.program \notin livePrograms

\* Line 1196: the struct cannot be drawn.
DrawInvalid(G) == G.program \notin livePrograms \/ G.vao \notin liveVAOs

\* Lines 1204-1354 on one struct; st is [geom, dev, calls].
DrawNode(st, n) ==
  LET G == st.geom[n]
      prev == st.dev
      used == [prev EXCEPT !.program = G.program]
      bound == BindTextures(G, used, 0)
      array == UnmapAttribs(G, [bound EXCEPT !.vao = G.vao])
      indexed == G.indices_len > 0 /\ G.indices_bufferobject \in liveBuffers
      unbound == UnbindTextures(G, array, 0)
  IN [geom |-> [st.geom EXCEPT ![n].has_been_drawn = 1],
      dev |-> RestoreBindings(prev, unbound),
      calls |-> Append(st.calls, [node |-> n, indexed |-> indexed,
                                  message |-> MissingTransformMessage(G)])]

\* Lines 1177-1358: this struct, then the rest of the list.
RECURSIVE DrawList(_, _)
DrawList(st, n) ==
  IF n = NULL THEN st
  ELSE IF DrawInvalid(st.geom[n]) THEN st
  ELSE DrawList(DrawNode(st, n), st.geom[n].next)

Draw(n) ==
  LET r == DrawList([geom |-> geom, dev |-> dev, calls |-> <<>>], n)
  IN /\ geom' = r.geom
     /\ dev' = r.dev
     /\ lastDraw' = [head |-> n, prev |-> dev, calls |-> r.calls, inactive |-> ""]
     /\ UNCHANGED <<liveVAOs, liveBuffers, livePrograms, liveTextures, bufOwner,
                    vaoOwner, delStack, exited,
                    textureIdMap, lastCall>>

\* ---------------------------------------------------- kuhl_geometry_delete
\* A delete that also calls glDeleteTextures on the textures of the struct.
DeleteReleases_Textures(G) ==
  [buffers |-> ({G.attribs[i].bufferobject : i \in 1..G.attrib_count}
                  \cup {G.indices_bufferobject}) \cap liveBuffers,
   vaos |-> {G.vao} \cap liveVAOs,
   textures |-> {G.textures[i].textureId : i \in 1..Len(G.textures)},
   programs |-> {}]

\* The device objects lines 1377-1396 delete for one struct.
DeleteReleases(G) ==
  [buffers |-> ({G.attribs[i].bufferobject : i \in 1..G.attrib_count}
                  \cup {G.indices_bufferobject}) \cap liveBuffers,
   vaos |-> {G.vao} \cap liveVAOs,
   textures |-> {},
   programs |-> {}]

\* Lines 1377-1397: the fields of the struct afterwards.
DeleteFields(G) ==
  [G EXCEPT !.attrib_count = 0, !.attribs = <<>>,
            !.indices_bufferobject = 0, !.indices_len = 0,
            !.vao = 0, !.has_been_drawn = 0]

\* The caller calls kuhl_geometry_delete(n).
DeleteCall(n) ==
  /\ delStack = <<>>
  /\ delStack' = <<n>>
  /\ lastDraw' = NoDraw
  /\ UNCHANGED <<geom, liveVAOs, liveBuffers, livePrograms, liveTextures, dev,
                 bufOwner, vaoOwner, exited,
                 textureIdMap, lastCall>>

\* One step of the innermost frame: the loop of lines 1374-1375 calls
\* kuhl_geometry_delete(geom->next) while geom->next is not NULL; after the
\* loop lines 1377-1397 run and the frame returns.
DeleteStep ==
  /\ delStack # <<>>
  /\ LET n == delStack[Len(delStack)]
         G == geom[n]
         rel == DeleteReleases(G)
     IN IF G.next # NULL
          THEN /\ delStack' = Append(delStack, G.next)
               /\ UNCHANGED <<geom, liveVAOs, liveBuffers, livePrograms, liveTextures,
                              dev, bufOwner, vaoOwner, lastDraw, exited,
                              textureIdMap, lastCall>>
          ELSE /\ delStack' = SubSeq(delStack, 1, Len(delStack) - 1)
               /\ geom' = [geom EXCEPT ![n] = DeleteFields(G)]
               /\ liveBuffers' = liveBuffers \ rel.buffers
               /\ liveVAOs' = liveVAOs \ rel.vaos
               /\ liveTextures' = liveTextures \ rel.textures
               /\ livePrograms' = livePrograms \ rel.programs
               /\ bufOwner' = [b \in DOMAIN bufOwner |->
                                 IF b \in rel.buffers THEN 0 ELSE bufOwner[b]]
               /\ vaoOwner' = [v \in DOMAIN vaoOwner |->
                                 IF v \in rel.vaos THEN 0 ELSE vaoOwner[v]]
               /\ dev' = IF rel.vaos = {}
                           THEN UnbindDeletedBuffers(dev, rel.buffers)
                           ELSE UnbindDeletedVAO(UnbindDeletedBuffers(dev, rel.buffers), G.vao)
               /\ UNCHANGED <<lastDraw, exited,
                              textureIdMap, lastCall>>

\* ---------------------------------------------------- kuhl_geometry_append
\* The walk of lines 2589-2590 left out: the struct passed in is taken for the last.
LastNode_Head(gs, a) == a

\* Lines 2589-2590: the last struct of the list a is in.
RECURSIVE LastNode(_, _)
LastNode(gs, a) == IF gs[a].next = NULL THEN a ELSE LastNode(gs, gs[a].next)

GeometryAppend(a, b) ==
  IF a = NULL \/ b = NULL
    THEN UNCHANGED vars
    ELSE /\ geom' = [geom EXCEPT ![LastNode(geom, a)].next = b]
         /\ lastDraw' = NoDraw
         /\ UNCHANGED <<liveVAOs, liveBuffers, livePrograms, liveTextures, dev,
                        bufOwner, vaoOwner, delStack, exited,
                        textureIdMap, lastCall>>

\* The value kuhl_geometry_append returns (lines 2581-2586, 2592).
AppendReturn(a, b) ==
  IF a = NULL /\ b = NULL THEN NULL
  ELSE IF a = NULL /\ b # NULL THEN b
  ELSE IF a # NULL /\ b = NULL THEN a
  ELSE a

\* ----------------------------------------------------- kuhl_geometry_count
\* The loop of lines 1006-1010, from struct g with count structs counted.
RECURSIVE CountLoop(_, _, _)
CountLoop(gs, g, count) ==
  IF gs[g].next # NULL THEN CountLoop(gs, gs[g].next, count + 1) ELSE count

GeometryCount(gs, n) == IF n = NULL THEN 0 ELSE CountLoop(gs, n, 1)

\* ---------------------------------------- the caller's own rendering code
\* The bindings the caller sets between two calls into the geometry layer.
\* A name that is no object of the device cannot be bound.
CallerUseProgram(p) ==
  /\ p \in livePrograms \cup {0}
  /\ dev' = [dev EXCEPT !.program = p]
  /\ lastDraw' = NoDraw
  /\ UNCHANGED <<geom, liveVAOs, liveBuffers, livePrograms, liveTextures, bufOwner,
                 vaoOwner, delStack, exited,
                 textureIdMap, lastCall>>

CallerActiveTexture(u) ==
  /\ u \in Units
  /\ dev' = [dev EXCEPT !.activeTexture = u]
  /\ lastDraw' = NoDraw
  /\ UNCHANGED <<geom, liveVAOs, liveBuffers, livePrograms, liveTextures, bufOwner,
                 vaoOwner, delStack, exited,
                 textureIdMap, lastCall>>

CallerBindTexture(t) ==
  /\ t \in liveTextures \cup {0}
  /\ dev' = [dev EXCEPT !.texture[dev.activeTexture] = t]
  /\ lastDraw' = NoDraw
  /\ UNCHANGED <<geom, liveVAOs, liveBuffers, livePrograms, liveTextures, bufOwner,
                 vaoOwner, delStack, exited,
                 textureIdMap, lastCall>>

CallerBindVertexArray(v) ==
  /\ v \in liveVAOs \cup {0}
  /\ dev' = [dev EXCEPT !.vao = v]
  /\ lastDraw' = NoDraw
  /\ UNCHANGED <<geom, liveVAOs, liveBuffers, livePrograms, liveTextures, bufOwner,
                 vaoOwner, delStack, exited,
                 textureIdMap, lastCall>>

CallerBindBuffer(b) ==
  /\ b \in liveBuffers \cup {0}
  /\ dev' = [dev EXCEPT !.arrayBuffer = b]
  /\ lastDraw' = NoDraw
  /\ UNCHANGED <<geom, liveVAOs, liveBuffers, livePrograms, liveTextures, bufOwner,
                 vaoOwner, delStack, exited,
                 textureIdMap, lastCall>>

\* ------------------------------------------------------------- the importer
\* What the importer reads of an ASSIMP scene sc: sc.id stands for the pointer
\* to the scene, sc.mMeshes is the mesh table and sc.nodes the nodes, the
\* root first; a node stands for its pointer by its place in sc.nodes. Places
\* count from 1 where the C arrays count from 0. A mesh gives mPrimitiveTypes,
\* mNumVertices, mNormals and mColors (is there such an array), diffuse (has
\* the material a diffuse colour), mTextureCoords, mFaces (the mIndices of
\* each face) and mBones (for each bone its mName, its mOffsetMatrix and its
\* mWeights, each an mVertexId and an mWeight). A node gives mName,
\* mTransformation (the rows of an aiMatrix4x4), mParent, mMeshes and
\* mChildren; sc.mAnimations are the animations. The materials have no
\* diffuse texture.
aiPrimitiveType_POINT == 1
aiPrimitiveType_LINE == 2
aiPrimitiveType_TRIANGLE == 4
aiPrimitiveType_POLYGON == 8

\* The & of two unsigned numbers.
RECURSIVE BitAnd(_, _)
BitAnd(a, b) ==
  IF a = 0 \/ b = 0 THEN 0
  ELSE 2 * BitAnd(a \div 2, b \div 2) + (IF a % 2 = 1 /\ b % 2 = 1 THEN 1 ELSE 0)

\* A filter that lets polygon meshes through as triangles.
MeshPrimitiveType_Polygons(mPrimitiveTypes) ==
  IF mPrimitiveTypes = 0 THEN 0
  ELSE IF BitAnd(mPrimitiveTypes, mPrimitiveTypes - 1) # 0 THEN 0
  ELSE IF BitAnd(mPrimitiveTypes, aiPrimitiveType_POINT) # 0 THEN 1
  ELSE IF BitAnd(mPrimitiveTypes, aiPrimitiveType_LINE) # 0 THEN 2
  ELSE IF BitAnd(mPrimitiveTypes, aiPrimitiveType_TRIANGLE) # 0 THEN 3
  ELSE IF BitAnd(mPrimitiveTypes, aiPrimitiveType_POLYGON) # 0 THEN 3
  ELSE 0

\* Lines 2639-2685: meshPrimitiveType, 0 for a mesh the loop skips.
MeshPrimitiveType(mPrimitiveTypes) ==
  IF mPrimitiveTypes = 0 THEN 0
  ELSE IF BitAnd(mPrimitiveTypes, mPrimitiveTypes - 1) # 0 THEN 0
  ELSE IF BitAnd(mPrimitiveTypes, aiPrimitiveType_POINT) # 0 THEN 1
  ELSE IF BitAnd(mPrimitiveTypes, aiPrimitiveType_LINE) # 0 THEN 2
  ELSE IF BitAnd(mPrimitiveTypes, aiPrimitiveType_TRIANGLE) # 0 THEN 3
  ELSE IF BitAnd(mPrimitiveTypes, aiPrimitiveType_POLYGON) # 0 THEN 0
  ELSE 0

\* A mapping that draws every accepted mesh as triangles.
MeshPrimitiveTypeGL_AllTriangles(meshPrimitiveType) == "GL_TRIANGLES"

\* meshPrimitiveTypeGL of an accepted mesh.
MeshPrimitiveTypeGL(meshPrimitiveType) ==
  CASE meshPrimitiveType = 1 -> "GL_POINTS"
    [] meshPrimitiveType = 2 -> "GL_LINES"
    [] OTHER -> "GL_TRIANGLES"

\* mat4f_from_aiMatrix4x4: the rows a, b, c, d of an aiMatrix4x4 go to a
\* float[16] that holds the matrix column by column.
Mat4fFromAiMatrix4x4(m) == [i \in 0..15 |-> m[(i % 4) + 1][(i \div 4) + 1]]

\* The importer runs many calls of the library in one go. W is the state
\* they pass along: the structs, the device, whether exit was called (exited),
\* whether a write went past the end of an array (outside), whether the
\* names or structs of the model ran out (full), and the matrix that memory
\* from kuhl_malloc holds before it is written (heap).
World ==
  [geom |-> geom, liveVAOs |-> liveVAOs, liveBuffers |-> liveBuffers,
   bufOwner |-> bufOwner, vaoOwner |-> vaoOwner, dev |-> dev,
   exited |-> FALSE, outside |-> {}, full |-> FALSE,
   indices |-> <<>>, weights |-> <<>>, heap |-> Mat4fZero]

\* What kuhl_malloc may hand out: zeros, or what was there before.
HeapFills == {Mat4fZero, << [stale |-> TRUE] >>}

Stopped(W) == W.exited \/ W.full

\* kuhl_malloc: memory that is not in use.
KuhlMalloc(W) == Least({n \in Nodes : W.geom[n] = ZeroGeom})

\* kuhl_geometry_new (lines 1028-1073) within W.
NewIn(W, n, program, vertexCount, primitive_type) ==
  LET free == Least((1..MaxVAOs) \ W.liveVAOs)
      v == CHOOSE x \in free : TRUE
  IN IF Stopped(W) THEN W
     ELSE IF free = {} THEN [W EXCEPT !.full = TRUE]
     ELSE [W EXCEPT !.liveVAOs = @ \cup {v},
                    !.vaoOwner[v] = n,
                    !.dev.vao = 0,
                    !.geom[n] = IF program \notin livePrograms
                                  THEN [@ EXCEPT !.vao = v]
                                  ELSE NewFields(@, v, program, vertexCount,
                                                 primitive_type),
                    !.exited = program \notin livePrograms]

\* kuhl_geometry_append (lines 2579-2593) within W.
AppendIn(W, a, b) ==
  IF Stopped(W) \/ a = NULL \/ b = NULL THEN W
  ELSE [W EXCEPT !.geom[LastNode(W.geom, a)].next = b]

\* kuhl_geometry_attrib (lines 880-992) within W, called with an array and a
\* name on a struct that kuhl_geometry_new has just emptied, each name once:
\* the slot is a new one.
AttribIn(W, n, components, name) ==
  LET G == W.geom[n]
      destIndex == G.attrib_count
      free == Least((1..MaxBuffers) \ W.liveBuffers)
      b == CHOOSE x \in free : TRUE
  IN IF Stopped(W) THEN W
     ELSE IF \/ components = 0
             \/ G.vao \notin W.liveVAOs
             \/ AttribLocation(G.program, name) = -1 THEN W
     ELSE IF AttribOverflow(destIndex)
       THEN [W EXCEPT !.geom[n].attrib_count = destIndex + 1, !.exited = TRUE]
     ELSE IF free = {} THEN [W EXCEPT !.full = TRUE]
     ELSE [W EXCEPT !.geom[n].attrib_count = destIndex + 1,
                    !.geom[n].attribs = SetSlot(@, destIndex,
                                          [name |-> name, bufferobject |-> b]),
                    !.liveBuffers = @ \cup {b},
                    !.bufOwner[b] = n,
                    !.dev.vao = 0,
                    !.dev.arrayBuffer = 0]

\* kuhl_geometry_indices (lines 1086-1134) within W.
IndicesIn(W, n, indices) ==
  LET free == Least((1..MaxBuffers) \ W.liveBuffers)
      b == CHOOSE x \in free : TRUE
  IN IF Stopped(W) \/ Len(indices) = 0 THEN W
     ELSE IF IndicesArityError(W.geom[n], Len(indices))
       THEN [W EXCEPT !.exited = TRUE]
     ELSE IF free = {} THEN [W EXCEPT !.full = TRUE]
     ELSE [W EXCEPT !.geom[n].indices_len = Len(indices),
                    !.geom[n].indices = indices,
                    !.geom[n].indices_bufferobject = b,
                    !.liveBuffers = @ \cup {b},
                    !.bufOwner[b] = n,
                    !.dev.vao = 0]

\* Lines 2878-2891: the first meshPrimitiveType indices of each face.
RECURSIVE FaceIndices(_, _, _)
FaceIndices(mFaces, meshPrimitiveType, t) ==
  IF t > Len(mFaces) THEN <<>>
  ELSE SubSeq(mFaces[t], 1, meshPrimitiveType)
         \o FaceIndices(mFaces, meshPrimitiveType, t + 1)

\* Lines 2808-2826 for vertex i: what the mWeights from the k-th on of bone j
\* (counted from 0) hold for the vertex, in their order.
RECURSIVE BoneRefs(_, _, _, _)
BoneRefs(mWeights, j, i, k) ==
  IF k > Len(mWeights) THEN <<>>
  ELSE (IF mWeights[k].mVertexId = i
          THEN <<[index |-> j, weight |-> mWeights[k].mWeight]>>
          ELSE <<>>)
         \o BoneRefs(mWeights, j, i, k + 1)

\* The same for the bones from the j-th on (counted from 1).
RECURSIVE VertexRefs(_, _, _)
VertexRefs(mBones, i, j) ==
  IF j > Len(mBones) THEN <<>>
  ELSE BoneRefs(mBones[j].mWeights, j - 1, i, 1) \o VertexRefs(mBones, i, j + 1)

\* Lines 2821-2822: indices[i*4+count] and weights[i*4+count] are written;
\* the arrays hold size floats each.
StoreRef(W, size, i, count, ref) ==
  IF i * 4 + count < size
    THEN [W EXCEPT !.indices[i * 4 + count] = ref.index,
                   !.weights[i * 4 + count] = ref.weight]
    ELSE [W EXCEPT !.outside = @ \cup {i * 4 + count}]

\* Lines 2808-2826 with count references of vertex i stored.
RECURSIVE StoreRefs(_, _, _, _, _)
StoreRefs(W, size, i, refs, count) ==
  IF count >= Len(refs) THEN W
  ELSE StoreRefs(StoreRef(W, size, i, count, refs[count + 1]),
                 size, i, refs, count + 1)

\* Lines 2799-2805: the four slots of vertex i are zeroed.
ZeroSlots(W, i) ==
  [W EXCEPT !.indices = [p \in DOMAIN @ |->
                           IF p \in (i * 4)..(i * 4 + 3) THEN 0 ELSE @[p]],
            !.weights = [p \in DOMAIN @ |->
                           IF p \in (i * 4)..(i * 4 + 3) THEN 0 ELSE @[p]]]

\* Lines 2796-2827 from vertex i on.
RECURSIVE VertexLoop(_, _, _)
VertexLoop(W, mesh, i) ==
  IF i >= mesh.mNumVertices THEN W
  ELSE VertexLoop(StoreRefs(ZeroSlots(W, i), mesh.mNumVertices * 4, i,
                            VertexRefs(mesh.mBones, i, 1), 0),
                  mesh, i + 1)

\* Line 2831: the test that vertex i has no weights.
ZeroWeight(weights, i) == weights[i * 4 + 0] = 0

\* Lines 2784-2841. Every slot of the two arrays is written before it is
\* read, so what kuhl_malloc left in them does not matter.
BonesIn(W, n, mesh) ==
  IF Stopped(W) \/ Len(mesh.mBones) = 0 THEN W
  ELSE IF Len(mesh.mBones) > MAX_BONES THEN [W EXCEPT !.exited = TRUE]
  ELSE LET A == VertexLoop(
                  [W EXCEPT !.indices = [p \in 0..(mesh.mNumVertices * 4 - 1) |-> 0],
                            !.weights = [p \in 0..(mesh.mNumVertices * 4 - 1) |-> 0]],
                  mesh, 0)
       IN IF \E i \in 0..(mesh.mNumVertices - 1) : ZeroWeight(A.weights, i)
            THEN [A EXCEPT !.exited = TRUE]
            ELSE AttribIn(AttribIn(A, n, 4, "in_BoneIndex"), n, 4, "in_BoneWeight")

\* A kuhl_bonemat none of whose matrices is written.
BoneMatrixAtImport_Unset(b, count, heap) == heap

\* Lines 2902-2904: matrices[b] when the kuhl_bonemat has been set up.
BoneMatrixAtImport(b, count, heap) == IF b >= count THEN Mat4fIdentity ELSE heap

\* Lines 2894-2906: the kuhl_bonemat of a mesh with bones. kuhl_malloc hands
\* out the memory, boneList is filled below the count, and the matrices from
\* the count on are set to the identity: the matrices below the count are
\* not written.
BoneMatsIn(W, g, mesh, n) ==
  IF Stopped(W) \/ Len(mesh.mBones) = 0 THEN W
  ELSE [W EXCEPT !.geom[g].bones =
          [count |-> Len(mesh.mBones),
           mesh |-> n - 1,
           boneList |-> [b \in 1..Len(mesh.mBones) |-> mesh.mBones[b]],
           matrices |-> [b \in 0..(MAX_BONES - 1) |->
                           BoneMatrixAtImport(b, Len(mesh.mBones), W.heap)]]]

\* A transform with the factors the other way round.
CurrentTransform_Reversed(currentTransform, thisTransform) ==
  Mat4fMultProducts(thisTransform, currentTransform)

\* Line 2627: currentTransform = currentTransform * thisTransform.
CurrentTransform(currentTransform, thisTransform) ==
  Mat4fMultProducts(currentTransform, thisTransform)

\* Lines 2633-2917: the n-th mesh of node nd. R carries W, first_geom and
\* what the caller's array currentTransform holds.
LoadMesh(R, sc, nd, n, program) ==
  LET mesh == sc.mMeshes[sc.nodes[nd].mMeshes[n]]
      meshPrimitiveType == MeshPrimitiveType(mesh.mPrimitiveTypes)
      free == KuhlMalloc(R.w)
      g == CHOOSE x \in free : TRUE
      W1 == NewIn(R.w, g, program, mesh.mNumVertices,
                  MeshPrimitiveTypeGL(meshPrimitiveType))
      W2 == AppendIn(W1, R.first_geom, g)
      W3 == IF Stopped(W2) THEN W2
            ELSE [W2 EXCEPT !.geom[g].assimp_node = nd,
                            !.geom[g].assimp_scene = sc.id,
                            !.geom[g].matrix = R.currentTransform]
      W4 == AttribIn(W3, g, 3, "in_Position")
      W5 == IF mesh.mNormals THEN AttribIn(W4, g, 3, "in_Normal") ELSE W4
      W6 == IF mesh.mColors \/ mesh.diffuse
              THEN AttribIn(W5, g, 3, "in_Color") ELSE W5
      W7 == IF mesh.mTextureCoords THEN AttribIn(W6, g, 2, "in_TexCoord") ELSE W6
      W8 == BonesIn(W7, g, mesh)
      W9 == IndicesIn(W8, g, FaceIndices(mesh.mFaces, meshPrimitiveType, 1))
      W10 == BoneMatsIn(W9, g, mesh, n)
  IN IF Stopped(R.w) \/ meshPrimitiveType = 0 THEN R
     ELSE IF free = {} THEN [R EXCEPT !.w.full = TRUE]
     ELSE [w |-> W10,
           first_geom |-> IF Stopped(W1) THEN R.first_geom
                          ELSE AppendReturn(R.first_geom, g),
           currentTransform |-> R.currentTransform]

\* A return that leaves in the caller's array what the node made of it.
RestoreTransform_Keep(origTransform, currentTransform) == currentTransform

\* Line 2929: mat4f_copy(currentTransform, origTransform).
RestoreTransform(origTransform, currentTransform) == origTransform

\* Lines 2604-2931: node nd of scene sc, its meshes from the n-th on and then
\* its children from the i-th on. The result carries W, first_geom and the
\* caller's array currentTransform, which the calls for the children are
\* handed one after the other (line 2923) and which each call changes at its
\* start (2627) and puts back at its end (2929).
RECURSIVE LoadMeshes(_, _, _, _, _)
LoadMeshes(R, sc, nd, n, program) ==
  IF n > Len(sc.nodes[nd].mMeshes) THEN R
  ELSE LoadMeshes(LoadMesh(R, sc, nd, n, program), sc, nd, n + 1, program)

\* Lines 2923-2924: what the call for a child makes of R.
ChildReturn(R, child) ==
  [w |-> AppendIn(child.w, R.first_geom, child.first_geom),
   first_geom |-> IF Stopped(child.w) THEN R.first_geom
                  ELSE AppendReturn(R.first_geom, child.first_geom),
   currentTransform |-> child.currentTransform]

RECURSIVE LoadChildren(_, _, _, _, _)
RECURSIVE LoadNode(_, _, _, _, _)
LoadChildren(R, sc, nd, i, program) ==
  IF i > Len(sc.nodes[nd].mChildren) THEN R
  ELSE LoadChildren(
         ChildReturn(R, LoadNode(R.w, sc, sc.nodes[nd].mChildren[i], program,
                                 R.currentTransform)),
         sc, nd, i + 1, program)

\* Lines 2929-2931 on the result R of the two loops.
LoadReturn(R, origTransform) ==
  [R EXCEPT !.currentTransform = RestoreTransform(origTransform, @)]

LoadNode(W, sc, nd, program, currentTransform) ==
  LET thisTransform ==
        Mat4fFactor([matrix |-> Mat4fFromAiMatrix4x4(sc.nodes[nd].mTransformation)])
  IN LoadReturn(
       LoadChildren(
         LoadMeshes([w |-> W, first_geom |-> NULL,
                     currentTransform |->
                       CurrentTransform(currentTransform, thisTransform)],
                    sc, nd, 1, program),
         sc, nd, 1, program),
       currentTransform)

\* kuhl_private_load_model on the root node of sc, the caller's array holding
\* the identity (line 3057). A write past the end of an array is undefined:
\* the process may go on as if nothing happened, or stop.
PrivateLoadModel(sc, program) ==
  \E heap \in HeapFills :
  \E R \in {LoadNode([World EXCEPT !.heap = heap], sc, 1, program, Mat4fIdentity)} :
     /\ ~R.w.full
     /\ geom' = R.w.geom
     /\ liveVAOs' = R.w.liveVAOs
     /\ liveBuffers' = R.w.liveBuffers
     /\ bufOwner' = R.w.bufOwner
     /\ vaoOwner' = R.w.vaoOwner
     /\ dev' = R.w.dev
     /\ exited' \in {R.w.exited} \cup (IF R.w.outside # {} THEN {TRUE} ELSE {})
     /\ lastCall' = [op |-> "kuhl_private_load_model", sc |-> sc,
                     program |-> program,
                     first_geom |-> R.first_geom,
                     indices |-> R.w.indices, weights |-> R.w.weights,
                     outside |-> R.w.outside,
                     currentTransform |-> R.currentTransform]
     /\ lastDraw' = NoDraw
     /\ UNCHANGED <<livePrograms, liveTextures, delStack, textureIdMap>>

\* --------------------------------------------------- kuhl_private_calc_bbox
\* The transform of kuhl_private_calc_bbox, lines 1924-1983. B carries what
\* *transform holds and, for each node in the order the walk reaches it, the
\* transform its vertices are multiplied with (visits). The matrices are
\* products of the mTransformation of the nodes, written as those of the
\* importer are; the vertices and the box made of them are left out.
CalcBBoxRestore_Keep(previousTransform, transform) == transform

\* Line 1983: *transform = previousTransform.
CalcBBoxRestore(previousTransform, transform) == previousTransform

CalcBBoxReturn(B, previousTransform) ==
  [B EXCEPT !.transform = CalcBBoxRestore(previousTransform, @)]

\* Line 1945: aiMultiplyMatrix4(transform, &nd->mTransformation), and the
\* loop over the meshes of the node, lines 1948-1974.
CalcBBoxVisit(B, sc, nd) ==
  [transform |-> Mat4fMultProducts(B.transform,
                   Mat4fFactor([matrix |-> Mat4fFromAiMatrix4x4(sc.nodes[nd].mTransformation)])),
   visits |-> Append(B.visits,
                [node |-> nd,
                 transform |-> Mat4fMultProducts(B.transform,
                   Mat4fFactor([matrix |-> Mat4fFromAiMatrix4x4(sc.nodes[nd].mTransformation)]))])]

RECURSIVE CalcBBoxChildren(_, _, _, _)
RECURSIVE CalcBBox(_, _, _)
CalcBBoxChildren(B, sc, nd, n) ==
  IF n > Len(sc.nodes[nd].mChildren) THEN B
  ELSE CalcBBoxChildren(CalcBBox(B, sc, sc.nodes[nd].mChildren[n]), sc, nd, n + 1)

CalcBBox(B, sc, nd) ==
  CalcBBoxReturn(CalcBBoxChildren(CalcBBoxVisit(B, sc, nd), sc, nd, 1), B.transform)

\* A call of kuhl_private_calc_bbox on the root with transform NULL (line
\* 3068): the transform starts as the identity (1937-1939). The call changes
\* nothing but the box it is given.
PrivateCalcBBox(sc) ==
  /\ lastCall' = [op |-> "kuhl_private_calc_bbox", sc |-> sc,
                  result |-> CalcBBox([transform |-> Mat4fIdentity, visits |-> <<>>],
                                      sc, 1)]
  /\ UNCHANGED <<geom, liveVAOs, liveBuffers, livePrograms, liveTextures, dev,
                 bufOwner, vaoOwner, lastDraw, delStack, exited, textureIdMap>>

\* ------------------------------------------------ kuhl_private_assimp_load
\* A file name is the sequence of its parts between slashes. dirname drops
\* the last part.
Dirname(modelFile) == SubSeq(modelFile, 1, Len(modelFile) - 1)

\* kuhl_private_assimp_fullpath (lines 2180-2204): "%s/%s" of the texture
\* directory, or else the directory of the model file, and the texture file.
\* The empty sequence stands for a textureDir of NULL.
AssimpFullpath(textureFile, modelFile, textureDir) ==
  IF textureDir = <<>> THEN Dirname(modelFile) \o textureFile
  ELSE textureDir \o textureFile

\* A scan that passes over the entries of failed uploads.
AlreadyExists_Loaded(map, fullpath) ==
  \E i \in 1..Len(map) :
    map[i].textureFileName = fullpath /\ map[i].textureID # 0

\* Lines 2318-2326: the scan of textureIdMap for fullpath.
AlreadyExists(map, fullpath) ==
  \E i \in 1..Len(map) : map[i].textureFileName = fullpath

\* kuhl_read_texture_file (lines 1655-1703, 1421-1490) within T. The outcome
\* is "loaded", "unreadable" (no image could be read) or "rejected" (OpenGL
\* does not take the texture: its name stays in use); texIndex is the name
\* of the texture, 0 unless it was loaded.
ReadTextureFileIn(T, fullpath, outcome) ==
  LET free == Least((1..MaxTexIds) \ T.liveTextures)
      t == CHOOSE x \in free : TRUE
  IN IF outcome = "unreadable"
       THEN [T EXCEPT !.uploads = Append(@, fullpath), !.texIndex = 0]
     ELSE IF free = {} THEN [T EXCEPT !.full = TRUE]
     ELSE [T EXCEPT !.uploads = Append(@, fullpath),
                    !.liveTextures = @ \cup {t},
                    !.dev.texture[T.dev.activeTexture] = 0,
                    !.texIndex = IF outcome = "loaded" THEN t ELSE 0]

\* Lines 2306-2345 for one material; texture is the path of its diffuse
\* texture, the empty sequence if it has none.
LoadMaterial(T, texture, modelFilename, textureDirname, outcome) ==
  LET fullpath == AssimpFullpath(texture, modelFilename, textureDirname)
      T1 == ReadTextureFileIn(T, fullpath, outcome)
  IN IF T.exited \/ T.full \/ texture = <<>> THEN T
     ELSE IF AlreadyExists(T.map, fullpath)
       THEN [T EXCEPT !.skipped = Append(@, fullpath)]
     ELSE IF T1.full THEN T1
     ELSE IF Len(T1.map) >= textureIdMapMaxSize THEN [T1 EXCEPT !.exited = TRUE]
     ELSE [T1 EXCEPT !.map = Append(@, [textureFileName |-> fullpath,
                                        textureID |-> T1.texIndex])]

\* Lines 2306-2386: the materials from the m-th on.
RECURSIVE LoadMaterials(_, _, _, _, _, _)
LoadMaterials(T, mMaterials, m, modelFilename, textureDirname, outcomes) ==
  IF m > Len(mMaterials) THEN T
  ELSE LoadMaterials(
         LoadMaterial(T, mMaterials[m], modelFilename, textureDirname, outcomes[m]),
         mMaterials, m + 1, modelFilename, textureDirname, outcomes)

\* kuhl_private_assimp_load for a model file that ASSIMP reads, with the
\* diffuse textures mMaterials of its materials; outcomes[m] is how reading
\* the texture file would end at material m.
AssimpLoad(modelFilename, textureDirname, mMaterials, outcomes) ==
  LET T == LoadMaterials(
             [map |-> textureIdMap, liveTextures |-> liveTextures, dev |-> dev,
              uploads |-> <<>>, skipped |-> <<>>, texIndex |-> 0, exited |-> FALSE, full |-> FALSE],
             mMaterials, 1, modelFilename, textureDirname, outcomes)
  IN /\ ~T.full
     /\ textureIdMap' = T.map
     /\ liveTextures' = T.liveTextures
     /\ dev' = T.dev
     /\ exited' = T.exited
     /\ lastCall' = [op |-> "kuhl_private_assimp_load", uploads |-> T.uploads,
                     skipped |-> T.skipped]
     /\ lastDraw' = NoDraw
     /\ UNCHANGED <<geom, liveVAOs, liveBuffers, livePrograms, bufOwner,
                    vaoOwner, delStack>>

\* ------------------------------------------------ kuhl_private_anim_matrix
\* Times and values are whole numbers and the factor between two keys is the
\* exact fraction num/den: the rounding of float and double is left out. A
\* track is the sequence of its keys, each an mTime and an mValue; key j of
\* the code is keys[j + 1].

\* Lines 2399-2405: positionStart (likewise rotationStart, scalingStart).
KeyStart(keys, ticks) ==
  LET hits == {j \in 0..(Len(keys) - 2) : ticks < keys[j + 2].mTime}
  IN IF hits = {} THEN 0 ELSE CHOOSE j \in hits : \A k \in hits : j <= k

\* Lines 2406-2408: positionEnd.
KeyEnd(keys, start) == IF start + 1 >= Len(keys) THEN start ELSE start + 1

\* Lines 2410-2415: factor.
KeyFactor(keys, start, end, ticks) ==
  LET deltaTime == keys[end + 1].mTime - keys[start + 1].mTime
  IN IF deltaTime # 0
       THEN [num |-> ticks - keys[start + 1].mTime, den |-> deltaTime]
       ELSE [num |-> 0, den |-> 1]

\* Lines 2417-2427: start * (1 - factor) + end * factor, as the fraction
\* num[c]/den for each of the three components.
Vec3Mid(valStart, valEnd, factor) ==
  [num |-> [c \in 1..3 |-> valStart[c] * (factor.den - factor.num)
                             + valEnd[c] * factor.num],
   den |-> factor.den]

\* quatf_slerp_new: the start at factor 0, the end at factor 1, else the
\* rotation the factor gives between (or beyond) the two.
QuatSlerp(valStart, valEnd, factor) ==
  IF factor.num = 0 \/ valStart = valEnd
    THEN [from |-> valStart, to |-> valStart, num |-> 0, den |-> 1]
  ELSE IF factor.num = factor.den
    THEN [from |-> valEnd, to |-> valEnd, num |-> 0, den |-> 1]
  ELSE [from |-> valStart, to |-> valEnd, num |-> factor.num, den |-> factor.den]

\* Lines 2396-2500: transformResult = translation * rotation * scaling, held
\* as the three interpolated values the matrices are made of, next to the
\* indices of the keys they were made from.
AnimMatrix(na, ticks) ==
  LET positionStart == KeyStart(na.mPositionKeys, ticks)
      positionEnd == KeyEnd(na.mPositionKeys, positionStart)
      rotationStart == KeyStart(na.mRotationKeys, ticks)
      rotationEnd == KeyEnd(na.mRotationKeys, rotationStart)
      scalingStart == KeyStart(na.mScalingKeys, ticks)
      scalingEnd == KeyEnd(na.mScalingKeys, scalingStart)
  IN [positionStart |-> positionStart, positionEnd |-> positionEnd,
      rotationStart |-> rotationStart, rotationEnd |-> rotationEnd,
      scalingStart |-> scalingStart, scalingEnd |-> scalingEnd,
      positionValMid |->
        Vec3Mid(na.mPositionKeys[positionStart + 1].mValue,
                na.mPositionKeys[positionEnd + 1].mValue,
                KeyFactor(na.mPositionKeys, positionStart, positionEnd, ticks)),
      rotationValMid |->
        QuatSlerp(na.mRotationKeys[rotationStart + 1].mValue,
                  na.mRotationKeys[rotationEnd + 1].mValue,
                  KeyFactor(na.mRotationKeys, rotationStart, rotationEnd, ticks)),
      scalingValMid |->
        Vec3Mid(na.mScalingKeys[scalingStart + 1].mValue,
                na.mScalingKeys[scalingEnd + 1].mValue,
                KeyFactor(na.mScalingKeys, scalingStart, scalingEnd, ticks))]

\* ------------------------------------------------ kuhl_private_node_matrix
\* An early return that does not look at the time.
NodeMatrixStatic_NoTime(scene, animationNum, t) ==
  animationNum >= Len(scene.mAnimations)

\* Line 2538: the test for the early return.
NodeMatrixStatic(scene, animationNum, t) ==
  animationNum >= Len(scene.mAnimations) \/ t < 0

\* A search that takes every channel, whatever its name.
NodeChannels_AnyName(anim, node) == 1..Len(anim.mChannels)

\* Lines 2550-2561: the channels (counted from 1) named like the node.
NodeChannels(anim, node) ==
  {i \in 1..Len(anim.mChannels) : anim.mChannels[i].mNodeName = node.mName}

\* Lines 2526-2565: the return value ret, transformResult (the matrix of the
\* node in matrix, or the values of its channel in anim) and the channel read.
NodeMatrix(scene, node, animationNum, t) ==
  LET static == [ret |-> 0, matrix |-> Mat4fFromAiMatrix4x4(node.mTransformation),
                 channel |-> 0]
      anim == scene.mAnimations[animationNum + 1]
      currentTick == t * anim.mTicksPerSecond
      found == NodeChannels(anim, node)
      i == CHOOSE x \in found : \A y \in found : x <= y
  IN IF NodeMatrixStatic(scene, animationNum, t) THEN static
     ELSE IF currentTick > anim.mDuration THEN static
     ELSE IF found = {} THEN static
     ELSE [ret |-> 1, anim |-> AnimMatrix(anim.mChannels[i], currentTick),
           channel |-> i]

\* A call of kuhl_private_node_matrix: it changes nothing but transformResult.
PrivateNodeMatrix(scene, node, animationNum, t) ==
  /\ lastCall' = [op |-> "kuhl_private_node_matrix", scene |-> scene,
                  node |-> node, animationNum |-> animationNum, t |-> t,
                  result |-> NodeMatrix(scene, node, animationNum, t)]
  /\ UNCHANGED <<geom, liveVAOs, liveBuffers, livePrograms, liveTextures, dev,
                 bufOwner, vaoOwner, lastDraw, delStack, exited, textureIdMap>>

\* ----------------------------------------------------- kuhl_bbox_transform
\* A float[16] holds a matrix column by column, from index 0 on. Numbers are
\* whole: the rounding of float is left out.

\* mat4f_mult_vec4f_new: the matrix times the four floats of v.
Mat4fMultVec4f(m, v) ==
  [r \in 0..3 |-> m[0 * 4 + r] * v[0] + m[1 * 4 + r] * v[1]
                    + m[2 * 4 + r] * v[2] + m[3 * 4 + r] * v[3]]

\* Lines 537-543: the initializer of coords[8][3] as the floats lie in
\* memory. It lists seven vertices; the eighth row is filled with zeros.
\* Index 24 is the float behind the array, whatever it holds.
BBoxCoords(bbox, beyond) ==
  LET xmin == bbox[0]
      xmax == bbox[1]
      ymin == bbox[2]
      ymax == bbox[3]
      zmin == bbox[4]
      zmax == bbox[5]
      rows == << <<xmin, ymin, zmin>>, <<xmin, ymin, zmax>>,
                 <<xmin, ymax, zmin>>, <<xmin, ymax, zmax>>,
                 <<xmax, ymin, zmax>>, <<xmax, ymax, zmin>>,
                 <<xmax, ymax, zmax>>, <<0, 0, 0>> >>
  IN [p \in 0..24 |-> IF p = 24 THEN beyond ELSE rows[(p \div 3) + 1][(p % 3) + 1]]

\* Lines 545-546 from row i on: mat4f_mult_vec4f_new(coords[i], mat,
\* coords[i]) reads four floats from the start of the row and writes four.
RECURSIVE BBoxTransformRows(_, _, _)
BBoxTransformRows(coords, mat, i) ==
  IF i >= 8 THEN coords
  ELSE LET r == Mat4fMultVec4f(mat, [k \in 0..3 |-> coords[3 * i + k]])
       IN BBoxTransformRows(
            [p \in 0..24 |-> IF p \in (3 * i)..(3 * i + 3) THEN r[p - 3 * i]
                             ELSE coords[p]],
            mat, i + 1)

\* Lines 548-570: the least and the greatest of each coordinate of the rows.
BBoxOfCoords(coords) ==
  LET col(k) == {coords[3 * i + k] : i \in 0..7}
      least(S) == CHOOSE x \in S : \A y \in S : x <= y
      greatest(S) == CHOOSE x \in S : \A y \in S : x >= y
  IN [p \in 0..5 |-> IF p % 2 = 0 THEN least(col(p \div 2))
                     ELSE greatest(col(p \div 2))]

\* Lines 529-571: bbox afterwards, and the float behind coords afterwards.
\* The empty sequence stands for a mat of NULL.
BBoxTransform(bbox, mat, beyond) ==
  IF mat = <<>> THEN [bbox |-> bbox, beyond |-> beyond]
  ELSE LET coords == BBoxTransformRows(BBoxCoords(bbox, beyond), mat, 0)
       IN [bbox |-> BBoxOfCoords(coords), beyond |-> coords[24]]

\* A call of kuhl_bbox_transform. Row 7 makes mat4f_mult_vec4f_new read and
\* write the float behind the array, which is undefined: when the write
\* changes that float the process may stop.
KuhlBBoxTransform(bbox, mat, beyond) ==
  LET r == BBoxTransform(bbox, mat, beyond)
  IN /\ lastCall' = [op |-> "kuhl_bbox_transform", bbox |-> bbox, mat |-> mat,
                     result |-> r.bbox]
     /\ exited' \in {FALSE, r.beyond # beyond}
     /\ UNCHANGED <<geom, liveVAOs, liveBuffers, livePrograms, liveTextures, dev,
                    bufOwner, vaoOwner, lastDraw, delStack, textureIdMap>>

\* ------------------------------------------------------------ kuhl_bbox_fit
\* A biggest size that leaves the depth out.
BiggestSize_NoDepth(width, height, depth) ==
  IF height > width THEN height ELSE width

\* Lines 3118-3122: biggestSize.
BiggestSize(width, height, depth) ==
  LET biggestSize == IF height > width THEN height ELSE width
  IN IF depth > biggestSize THEN depth ELSE biggestSize

\* A matrix of fractions: the floats num[i] / den, column by column.
\* mat4f_scale_new with the factor 1 / size on the three axes.
Mat4fScale(size) ==
  [num |-> [i \in 0..15 |-> IF i \in {0, 5, 10} THEN 1 ELSE IF i = 15 THEN size ELSE 0],
   den |-> size]

\* mat4f_translate_new by the vector t.num[c] / t.den.
Mat4fTranslate(t) ==
  [num |-> [i \in 0..15 |-> IF i % 5 = 0 THEN t.den
                            ELSE IF i \in 12..14 THEN t.num[i - 11] ELSE 0],
   den |-> t.den]

\* mat4f_mult_mat4f_new: the matrix a times the matrix b.
Mat4fMultMat4f(a, b) ==
  [num |-> [i \in 0..15 |->
              LET row == i % 4
                  col == i \div 4
              IN a.num[0 * 4 + row] * b.num[col * 4 + 0]
                   + a.num[1 * 4 + row] * b.num[col * 4 + 1]
                   + a.num[2 * 4 + row] * b.num[col * 4 + 2]
                   + a.num[3 * 4 + row] * b.num[col * 4 + 3]],
   den |-> a.den * b.den]

\* Lines 3102-3136: result = scaleBoundBox * moveToOrigin. ctr is
\* (min + max) / 2, held as the fractions ctr.num[c] / ctr.den.
BBoxFit(bbox, sitOnXZPlane) ==
  LET min == <<bbox[0], bbox[2], bbox[4]>>
      max == <<bbox[1], bbox[3], bbox[5]>>
      ctr == [num |-> [c \in 1..3 |-> min[c] + max[c]], den |-> 2]
      width == max[1] - min[1]
      height == max[2] - min[2]
      depth == max[3] - min[3]
      biggestSize == BiggestSize(width, height, depth)
      scaleBoundBox == Mat4fScale(biggestSize)
      moveToOrigin ==
        IF sitOnXZPlane = 0
          THEN Mat4fTranslate([num |-> [c \in 1..3 |-> -ctr.num[c]], den |-> 2])
          ELSE Mat4fTranslate([num |-> [c \in 1..3 |-> IF c = 2 THEN -ctr.num[c] + height
                                                       ELSE -ctr.num[c]],
                               den |-> 2])
  IN [scaleBoundBox |-> scaleBoundBox, moveToOrigin |-> moveToOrigin,
      result |-> Mat4fMultMat4f(scaleBoundBox, moveToOrigin)]

\* A call of kuhl_bbox_fit.
KuhlBBoxFit(bbox, sitOnXZPlane) ==
  /\ lastCall' = [op |-> "kuhl_bbox_fit", bbox |-> bbox,
                  sitOnXZPlane |-> sitOnXZPlane,
                  moveToOrigin |-> BBoxFit(bbox, sitOnXZPlane).moveToOrigin,
                  result |-> BBoxFit(bbox, sitOnXZPlane).result]
  /\ UNCHANGED <<geom, liveVAOs, liveBuffers, livePrograms, liveTextures, dev,
                 bufOwner, vaoOwner, lastDraw, delStack, exited, textureIdMap>>

\* ------------------------------------------------------ the specifications
\* The structs in list order from n on.
RECURSIVE ListFrom(_, _)
ListFrom(gs, n) == IF n = NULL THEN <<>> ELSE <<n>> \o ListFrom(gs, gs[n].next)

Running == ~exited /\ delStack = <<>>

\* The calls of kuhl_geometry_attrib (data given, components, name) the caller
\* makes: 3 floats per vertex under each name, and the calls with no array,
\* with 0 components and with an empty name.
AttribCalls ==
  {<<TRUE, 3, name>> : name \in AttribNames}
    \cup {<<FALSE, 3, "in_Position">>, <<TRUE, 0, "in_Position">>, <<TRUE, 3, "">>}

\* The calls of kuhl_geometry_texture (texture, name) the caller makes: each
\* texture name under each sampler name, texture 0, and an empty name.
TextureCalls ==
  {<<t, name>> : t \in 1..MaxTexIds, name \in SamplerNames}
    \cup {<<0, "tex">>, <<1, "">>}

\* One struct through its whole life: created, filled, re-targeted, drawn,
\* destroyed.
Next ==
  \/ Running /\ \E p \in Programs :
       geom[1].vao \notin liveVAOs /\ New(1, p, 3, "GL_TRIANGLES")
  \/ Running /\ \E c \in AttribCalls : Attrib(1, c[1], c[2], c[3])
  \/ Running /\ \E p \in Programs : Program(1, p, FALSE)
  \/ Running /\ \E idx \in {<<>>, <<0, 1>>, <<0, 1, 2>>} :
       geom[1].vao \in liveVAOs /\ Indices(1, idx)
  \/ Running /\ Draw(1)
  \/ Running /\ \E p \in Programs : p # dev.program /\ DeleteProgram(p)
  \/ Running /\ DeleteCall(1)
  \/ ~exited /\ DeleteStep

Spec == Init /\ [][Next]_vars

\* The attribute and texture registry of one struct.
NextRegistry ==
  \/ Running /\ \E p \in Programs :
       geom[1].vao \notin liveVAOs /\ New(1, p, 3, "GL_TRIANGLES")
  \/ Running /\ \E c \in AttribCalls : Attrib(1, c[1], c[2], c[3])
  \/ Running /\ ReadTexture
  \/ Running /\ \E c \in TextureCalls : Texture(1, c[1], c[2], FALSE)
  \/ Running /\ \E p \in Programs : Program(1, p, FALSE)
  \/ Running /\ DeleteCall(1)
  \/ ~exited /\ DeleteStep

SpecRegistry == Init /\ [][NextRegistry]_vars

\* Lists of two structs: built, drawn, destroyed. The caller appends a list b to a
\* list a only when b is the head of a list that shares no struct with a.
Appendable(a, b) ==
  \/ a = NULL
  \/ b = NULL
  \/ /\ \A m \in Nodes : geom[m].next # b
     /\ \A i \in 1..Len(ListFrom(geom, a)), j \in 1..Len(ListFrom(geom, b)) :
          ListFrom(geom, a)[i] # ListFrom(geom, b)[j]

NextList ==
  \/ Running /\ \E n \in {1, 2}, p \in Programs :
       geom[n].vao \notin liveVAOs /\ New(n, p, 3, "GL_TRIANGLES")
  \/ Running /\ \E a, b \in {NULL, 1, 2} :
       Appendable(a, b) /\ GeometryAppend(a, b)
  \/ Running /\ \E n \in {NULL, 1, 2} : Draw(n)
  \/ Running /\ \E p \in Programs : p # dev.program /\ DeleteProgram(p)
  \/ Running /\ \E n \in {1, 2} : DeleteCall(n)
  \/ ~exited /\ DeleteStep

SpecList == Init /\ [][NextList]_vars

\* The process runs on: a kuhl_geometry_delete that was called keeps executing.
FairSpecList == SpecList /\ WF_vars(DeleteStep)

\* Drawing amid the caller's own rendering code: any binding the device
\* allows may be in place when kuhl_geometry_draw is called. Struct 1 carries
\* the textures and struct 2 the attribute; either may head the list, and a
\* struct that was never created may be part of it. The caller renders with
\* program 2, texture 1, vertex array 1 and buffer 1 (whichever struct they
\* were generated for), on the two units a draw of struct 1 binds and on the
\* last unit, which no draw binds; the structs use program 1.
NextDraw ==
  \/ Running /\ \E n \in {1, 2} :
       geom[n].vao \notin liveVAOs /\ New(n, 1, 3, "GL_TRIANGLES")
  \/ Running /\ Attrib(2, TRUE, 3, "in_Position")
  \/ Running /\ ReadTexture
  \/ Running /\ \E name \in {"tex", "tex2"} : Texture(1, 1, name, FALSE)
  \/ Running /\ \E a, b \in {1, 2} : Appendable(a, b) /\ GeometryAppend(a, b)
  \/ Running /\ \E p \in {0, 2} : CallerUseProgram(p)
  \/ Running /\ \E u \in {0, 1, NumUnits - 1} : CallerActiveTexture(u)
  \/ Running /\ \E t \in {0, 1} : CallerBindTexture(t)
  \/ Running /\ \E v \in {0, 1} : CallerBindVertexArray(v)
  \/ Running /\ \E b \in {0, 1} : CallerBindBuffer(b)
  \/ Running /\ \E n \in {1, 2} : Draw(n)

SpecDraw == Init /\ [][NextDraw]_vars

\* Lists of up to three structs, built by appending any list, or NULL, to
\* any list, or NULL.
NextAppend ==
  \/ Running /\ \E n \in Nodes, p \in Programs :
       geom[n].vao \notin liveVAOs /\ New(n, p, 3, "GL_TRIANGLES")
  \/ Running /\ \E a, b \in Nodes \cup {NULL} :
       Appendable(a, b) /\ GeometryAppend(a, b)

SpecAppend == Init /\ [][NextAppend]_vars

\* Index lists on one struct of any topology and vertex count: lists of every
\* length up to four, with values below and not below the vertex count.
PrimitiveTypes == {"GL_POINTS", "GL_LINES", "GL_TRIANGLES"}
VertexCounts == {0, 2, 3}
IndexCalls ==
  {<<>>, <<0>>, <<0, 1>>, <<1, 0>>, <<0, 1, 2>>, <<0, 2, 3>>, <<0, 1, 1, 0>>}

NextIndices ==
  \/ Running /\ \E vc \in VertexCounts, t \in PrimitiveTypes :
       geom[1].vao \notin liveVAOs /\ New(1, 1, vc, t)
  \/ Running /\ \E idx \in IndexCalls :
       geom[1].vao \in liveVAOs /\ Indices(1, idx)
  \/ Running /\ Draw(1)
  \/ Running /\ DeleteCall(1)
  \/ ~exited /\ DeleteStep

SpecIndices == Init /\ [][NextIndices]_vars

\* One struct that is created again and again, whatever state it is in:
\* with attributes, a texture, indices, a struct appended to it, drawn or
\* not, destroyed or not. The device hands out MaxVAOs names, so the caller
\* gets that many structs made between two destroys.
NextCreate ==
  \/ Running /\ \E p \in Programs, vc \in {0, 3}, t \in {"GL_LINES", "GL_TRIANGLES"} :
       New(1, p, vc, t)
  \/ Running /\ Attrib(1, TRUE, 3, "in_Position")
  \/ Running /\ ReadTexture
  \/ Running /\ Texture(1, 1, "tex", FALSE)
  \/ Running /\ geom[1].vao \in liveVAOs /\ Indices(1, <<0, 1, 2>>)
  \/ Running /\ Appendable(1, 2) /\ GeometryAppend(1, 2)
  \/ Running /\ Draw(1)
  \/ Running /\ DeleteProgram(2)
  \/ Running /\ geom[1].next = NULL /\ DeleteCall(1)
  \/ ~exited /\ DeleteStep

SpecCreate == Init /\ [][NextCreate]_vars

\* Calls of kuhl_geometry_attrib and kuhl_geometry_texture with every kind
\* of argument, on no struct, on struct 1, which is created and destroyed,
\* and on struct 2, which kuhl_geometry_new was never called on: it lies in
\* memory the caller did not set, so that its vao is 0 or some other number
\* that is no vertex array (StaleVAO stands for these).
StaleVAO == MaxVAOs + 1

CallerStruct(n, vao) ==
  /\ geom[n] = ZeroGeom
  /\ geom' = [geom EXCEPT ![n].vao = vao]
  /\ UNCHANGED <<liveVAOs, liveBuffers, livePrograms, liveTextures, dev,
                 bufOwner, vaoOwner, lastDraw, delStack, exited, textureIdMap,
                 lastCall>>

SetterNodes == {NULL, 1, 2}

NextSetters ==
  \/ Running /\ geom[1].vao \notin liveVAOs /\ New(1, 1, 3, "GL_TRIANGLES")
  \/ Running /\ CallerStruct(2, StaleVAO)
  \/ Running /\ \E n \in SetterNodes, c \in AttribCalls : Attrib(n, c[1], c[2], c[3])
  \/ Running /\ ReadTexture
  \/ Running /\ \E n \in SetterNodes, c \in TextureCalls :
       Texture(n, c[1], c[2], FALSE)
  \/ Running /\ DeleteCall(1)
  \/ ~exited /\ DeleteStep

SpecSetters == Init /\ [][NextSetters]_vars

\* Textures on lists of up to three structs, struct 2 with program 2 and the
\* others with program 1; a struct of a list may never have been created,
\* the head included. The texture is
\* set under two sampler names, one of which program 2 does not have, on
\* struct 1 or 2 alone or on the whole list from it on.
TextureListNames == {"tex", "tex2"}
TextureListNodes == {1, 2, 3}

NextTextureList ==
  \/ Running /\ \E n \in TextureListNodes :
       geom[n] = ZeroGeom /\ New(n, IF n = 2 THEN 2 ELSE 1, 3, "GL_TRIANGLES")
  \/ Running /\ \E a \in {1, 2}, b \in {2, 3} :
       a < b /\ geom[a].next = NULL /\ Appendable(a, b) /\ GeometryAppend(a, b)
  \/ Running /\ ReadTexture
  \/ Running /\ \E n \in {1, 2}, t \in 1..MaxTexIds, name \in TextureListNames,
                   fullList \in BOOLEAN :
       Texture(n, t, name, fullList)

SpecTextureList == Init /\ [][NextTextureList]_vars

\* One or two structs with up to two textures each, whose program the caller
\* changes after the textures were set: program 2 has the sampler tex and
\* not the sampler tex2. The caller draws either struct, with any unit active.
NextUnits ==
  \/ Running /\ \E n \in {1, 2} :
       geom[n].vao \notin liveVAOs /\ New(n, 1, 3, "GL_TRIANGLES")
  \/ Running /\ ReadTexture
  \/ Running /\ \E n \in {1, 2}, name \in {"tex", "tex2"} :
       Texture(n, 1, name, FALSE)
  \/ Running /\ \E n \in {1, 2}, p \in Programs :
       geom[n].vao \in liveVAOs /\ geom[n].program # p /\ Program(n, p, FALSE)
  \/ Running /\ Appendable(1, 2) /\ GeometryAppend(1, 2)
  \/ Running /\ \E u \in {0, 1} : dev.activeTexture # u /\ CallerActiveTexture(u)
  \/ Running /\ \E n \in {1, 2} : Draw(n)

SpecUnits == Init /\ [][NextUnits]_vars

\* The caller writes the public field matrix of a struct.
CallerSetMatrix(n, m) ==
  /\ geom' = [geom EXCEPT ![n].matrix = m]
  /\ lastDraw' = NoDraw
  /\ UNCHANGED <<liveVAOs, liveBuffers, livePrograms, liveTextures, dev, bufOwner,
                 vaoOwner, delStack, exited, textureIdMap, lastCall>>

\* The structs whose has_been_drawn is watched, and the calls that make them.
DrawnNodes == {1, 2}
DrawnNews == Programs \X {3} \X {"GL_TRIANGLES"}

\* Two structs through their lives: made (also anew while in use), given a
\* matrix and another program, appended, drawn any number of times, deleted.
NextDrawn ==
  \/ Running /\ \E n \in DrawnNodes, c \in DrawnNews : New(n, c[1], c[2], c[3])
  \/ Running /\ \E n \in DrawnNodes, m \in {Mat4fIdentity, Mat4fZero} :
       geom[n].matrix # m /\ CallerSetMatrix(n, m)
  \/ Running /\ \E n \in DrawnNodes, p \in Programs :
       geom[n].vao \in liveVAOs /\ geom[n].program # p /\ Program(n, p, FALSE)
  \/ Running /\ Appendable(1, 2) /\ GeometryAppend(1, 2)
  \/ Running /\ \E n \in DrawnNodes : Draw(n)
  \/ Running /\ \E n \in DrawnNodes : DeleteCall(n)
  \/ ~exited /\ DeleteStep

SpecDrawn == Init /\ [][NextDrawn]_vars

\* The calls of the functions that bind a vertex array or a buffer while
\* they work, on two structs, between bindings of the caller's own.
BindingNews == {1, 2} \X {1} \X {3} \X {"GL_TRIANGLES"}
BindingAttribs == {<<1, TRUE, 3, "in_Position">>, <<1, TRUE, 3, "in_Normal">>}
BindingIndices == {<<1, <<0, 1, 2>>>>}
BindingPrograms == {1} \X Programs \X {FALSE}
BindingGets == {<<1, "in_Position", TRUE>>, <<1, "in_Position", FALSE>>}

NextBindings ==
  \/ Running /\ \E c \in BindingNews :
       geom[c[1]].vao \notin liveVAOs /\ New(c[1], c[2], c[3], c[4])
  \/ Running /\ \E c \in BindingAttribs :
       geom[c[1]].vao \in liveVAOs /\ Attrib(c[1], c[2], c[3], c[4])
  \/ Running /\ \E c \in BindingIndices :
       /\ geom[c[1]].vao \in liveVAOs
       /\ geom[c[1]].indices_len = 0
       /\ Indices(c[1], c[2])
  \/ Running /\ \E c \in BindingPrograms :
       /\ geom[c[1]].vao \in liveVAOs
       /\ geom[c[1]].program # c[2]
       /\ Program(c[1], c[2], c[3])
  \/ Running /\ \E c \in BindingGets :
       geom[c[1]].vao \in liveVAOs /\ AttribGet(c[1], c[2], c[3])
  \/ Running /\ \E v \in {0, 1, 2} : dev.vao # v /\ CallerBindVertexArray(v)
  \/ Running /\ \E b \in {0, 1} : dev.arrayBuffer # b /\ CallerBindBuffer(b)

SpecBindings == Init /\ [][NextBindings]_vars

\* Two structs that are made, filled, drawn, deleted one at a time, used
\* after that, and made again.
DestroyedNodes == {1, 2}
DestroyedAttribs == {<<TRUE, 3, "in_Position">>}
DestroyedTextures == {<<1, "tex">>}

NextDestroyed ==
  \/ Running /\ \E n \in DestroyedNodes :
       geom[n].vao \notin liveVAOs /\ New(n, 1, 3, "GL_TRIANGLES")
  \/ Running /\ \E n \in DestroyedNodes, c \in DestroyedAttribs :
       Attrib(n, c[1], c[2], c[3])
  \/ Running /\ ReadTexture
  \/ Running /\ \E n \in DestroyedNodes, c \in DestroyedTextures :
       Texture(n, c[1], c[2], FALSE)
  \/ Running /\ \E n \in DestroyedNodes : Draw(n)
  \/ Running /\ \E n \in DestroyedNodes :
       geom[n].vao \in liveVAOs /\ geom[n].next = NULL /\ DeleteCall(n)
  \/ ~exited /\ DeleteStep

SpecDestroyed == Init /\ [][NextDestroyed]_vars

\* ------------------------------------------------------------- properties

\* A call of kuhl_geometry_attrib that passes the early returns.
AttribAccepted(n, c) == ~AttribRejected(n, c[1], c[2], c[3])

\* A call of kuhl_geometry_texture that reaches the slot search on struct n.
TextureAccepted(n, c) ==
  /\ ~TextureRejected(n, c[1], c[2])
  /\ geom[n].vao \in liveVAOs
  /\ SamplerLocation(geom[n].program, c[2]) # -1

\* C1: while the process runs, attrib_count is at most MAX_ATTRIBUTES and
\* texture_count at most MAX_TEXTURES in every struct; a kuhl_geometry_attrib
\* or kuhl_geometry_texture call that adds a new name to a full set stops the
\* process and leaves every slot as it was.
C1_CountsWithinCapacity ==
  /\ [](~exited => \A n \in Nodes :
          /\ geom[n].attrib_count <= MAX_ATTRIBUTES
          /\ geom[n].texture_count <= MAX_TEXTURES)
  /\ [][\A n \in Nodes, c \in AttribCalls :
          ( /\ AttribAccepted(n, c)
            /\ AttribIndex(geom[n], c[3]) < 0
            /\ geom[n].attrib_count = MAX_ATTRIBUTES
            /\ Attrib(n, c[1], c[2], c[3]) )
          => (exited' /\ geom'[n].attribs = geom[n].attribs)]_vars
  /\ [][\A n \in Nodes, c \in TextureCalls :
          ( /\ TextureAccepted(n, c)
            /\ TextureDestIndex(geom[n], c[2]) = geom[n].texture_count
            /\ geom[n].texture_count = MAX_TEXTURES
            /\ Texture(n, c[1], c[2], FALSE) )
          => (exited' /\ geom'[n].textures = geom[n].textures)]_vars

\* C1 witness: the attribute set was full, a call added one more name and the
\* process stopped with the slots intact; the texture set is full too.
C1_Witness ==
  /\ exited
  /\ geom[1].attrib_count > MAX_ATTRIBUTES
  /\ Len(geom[1].attribs) = MAX_ATTRIBUTES
  /\ geom[1].texture_count = MAX_TEXTURES

\* kuhl_geometry_draw was the latest call and has returned.
DrawReturned == lastDraw.head # NULL

\* C2: when kuhl_geometry_draw returns, the program in use, the active
\* texture unit, the 2D texture bound on that unit and the bound vertex array
\* are what they were when it was called.
C2_DrawRestoresBindings ==
  DrawReturned =>
    /\ dev.program = lastDraw.prev.program
    /\ dev.activeTexture = lastDraw.prev.activeTexture
    /\ dev.texture[lastDraw.prev.activeTexture]
         = lastDraw.prev.texture[lastDraw.prev.activeTexture]
    /\ dev.vao = lastDraw.prev.vao

\* C2 witness: a list of two structs was drawn, one of them with two textures,
\* while the caller had its own program, texture and vertex array bound, the
\* texture on a unit the draw itself binds and unbinds.
C2_Witness ==
  /\ DrawReturned
  /\ Len(lastDraw.calls) = 2
  /\ geom[1].texture_count = 2
  /\ dev.program = 2
  /\ dev.activeTexture = 1
  /\ dev.texture[1] = 1
  /\ dev.vao # 0

\* C3: kuhl_geometry_draw leaves the 2D texture bound on every texture unit
\* and the GL_ARRAY_BUFFER binding as they were when it was called.
C3_DrawRestoresAllUnits ==
  DrawReturned =>
    /\ dev.texture = lastDraw.prev.texture
    /\ dev.arrayBuffer = lastDraw.prev.arrayBuffer

\* The structs of the list from h on that can be drawn, in list order.
Drawable(h) ==
  SelectSeq(ListFrom(geom, h), LAMBDA n : ~DrawInvalid(geom[n]))

\* C4: kuhl_geometry_draw(h) issues one draw call for every struct of the list
\* whose program and vertex array are live, in list order, and none for the
\* others.
C4_DrawsEveryLiveNode ==
  DrawReturned =>
    /\ Len(lastDraw.calls) = Len(Drawable(lastDraw.head))
    /\ \A i \in 1..Len(lastDraw.calls) :
         lastDraw.calls[i].node = Drawable(lastDraw.head)[i]

\* C5: a call of kuhl_geometry_delete returns.
C5_DeleteTerminates == (delStack # <<>>) ~> (delStack = <<>>)

\* C6: once kuhl_geometry_delete has returned for a struct, no buffer and no
\* vertex array that was generated for the struct is live.
C6_DeleteReleasesAllOwned ==
  \A n \in Nodes :
    (delStack = <<>> /\ geom[n].vao = 0) =>
      /\ \A b \in DOMAIN bufOwner : bufOwner[b] # n
      /\ \A v \in DOMAIN vaoOwner : vaoOwner[v] # n

\* C7: no step of kuhl_geometry_delete releases a texture or a program.
C7_DeleteKeepsTexturesAndPrograms ==
  [][delStack # <<>> =>
       /\ liveTextures' = liveTextures
       /\ livePrograms' = livePrograms]_vars

\* C7 witness: a struct with a texture binding was destroyed (its vertex array
\* is gone and its binding is still recorded); the texture and the program are
\* live.
C7_Witness ==
  /\ delStack = <<>>
  /\ geom[1].vao = 0
  /\ geom[1].texture_count > 0
  /\ geom[1].textures[1].textureId \in liveTextures
  /\ geom[1].program \in livePrograms

\* C8: a kuhl_geometry_attrib call under a name the struct already has leaves
\* attrib_count alone, leaves one record of that name, holding a live buffer,
\* and the live buffers afterwards are the ones before without the buffer
\* the record held, plus the buffer it holds now; names are unique per struct.
C8_ReAddReplaces ==
  /\ [][\A n \in Nodes, c \in AttribCalls :
          ( /\ AttribAccepted(n, c)
            /\ AttribIndex(geom[n], c[3]) >= 0
            /\ Attrib(n, c[1], c[2], c[3]) )
          => LET i == AttribIndex(geom[n], c[3]) + 1
             IN /\ geom'[n].attrib_count = geom[n].attrib_count
                /\ Len(geom'[n].attribs) = Len(geom[n].attribs)
                /\ geom'[n].attribs[i].name = c[3]
                /\ geom'[n].attribs[i].bufferobject \in liveBuffers'
                /\ liveBuffers' = (liveBuffers \ {geom[n].attribs[i].bufferobject})
                                    \cup {geom'[n].attribs[i].bufferobject}
                /\ \A j \in 1..Len(geom[n].attribs) :
                     j # i => geom'[n].attribs[j] = geom[n].attribs[j]]_vars
  /\ [](\A n \in Nodes : \A i, j \in 1..Len(geom[n].attribs) :
          i # j => geom[n].attribs[i].name # geom[n].attribs[j].name)

\* C8 witness: one attribute, held in buffer 2, and buffer 1 is not live. The
\* device hands out the least free name, so buffer 1 held the attribute before
\* and was released when the name was added again.
C8_Witness ==
  /\ ~exited
  /\ geom[1].attrib_count = 1
  /\ geom[1].attribs[1].bufferobject = 2
  /\ liveBuffers = {2}

\* C9: a kuhl_geometry_attrib call under a name that is not active in the
\* program of the struct changes nothing, generates no buffer; and while the
\* process runs every slot below attrib_count has a name and a live buffer.
C9_InactiveNameNoBuffer ==
  /\ [][\A n \in Nodes, c \in AttribCalls :
          ( /\ n # NULL
            /\ AttribLocation(geom[n].program, c[3]) = -1
            /\ Attrib(n, c[1], c[2], c[3]) )
          => (liveBuffers' = liveBuffers /\ geom' = geom)]_vars
  /\ [](~exited => \A n \in Nodes :
          /\ Len(geom[n].attribs) = geom[n].attrib_count
          /\ \A i \in 1..geom[n].attrib_count :
               /\ geom[n].attribs[i].name # ""
               /\ geom[n].attribs[i].bufferobject \in liveBuffers)

\* C9 witness: a struct on program 2, in which only in_Position is active,
\* holds that attribute; the latest call was kuhl_geometry_attrib under
\* in_Normal, and the struct holds no second attribute.
C9_Witness ==
  /\ ~exited
  /\ geom[1].vao \in liveVAOs
  /\ geom[1].program = 2
  /\ 2 \in livePrograms
  /\ lastDraw.inactive = "in_Normal"
  /\ geom[1].attrib_count = 1
  /\ geom[1].attribs[1].name = "in_Position"
  /\ liveBuffers = {geom[1].attribs[1].bufferobject}

\* C10: every attribute record that holds a live buffer names a variable that
\* is active in the program of the struct.
C10_BuffersOnlyForActiveNames ==
  \A n \in Nodes :
    (~exited /\ geom[n].program \in livePrograms) =>
      \A i \in 1..Len(geom[n].attribs) :
        geom[n].attribs[i].bufferobject \in liveBuffers
          => geom[n].attribs[i].name \in ActiveAttribs(geom[n].program)

\* Vertices per primitive of the topologies kuhl_geometry_indices knows.
Arity(primitive_type) ==
  CASE primitive_type = "GL_TRIANGLES" -> 3
    [] primitive_type = "GL_LINES" -> 2
    [] OTHER -> 1

\* Model files in the directories m and m/t, with or without a texture
\* directory, whose materials have no diffuse texture or one of three files.
ModelFiles == {<<"m", "x.obj">>, <<"m", "t", "y.obj">>}
TextureDirs == {<<>>, <<"m">>}
TextureFiles == {<<>>, <<"a.png">>, <<"t", "a.png">>, <<"b.png">>}
MaterialLists ==
  {<<f>> : f \in TextureFiles}
    \cup {<< <<"a.png">>, <<"a.png">> >>,
          << <<"a.png">>, <<"b.png">> >>,
          << <<"t", "a.png">>, <<>>, <<"a.png">> >>}
Outcomes == {"loaded", "unreadable", "rejected"}

NextTextures ==
  \/ Running /\ \E m \in ModelFiles, d \in TextureDirs, ms \in MaterialLists :
                   \E o \in [1..Len(ms) -> Outcomes] : AssimpLoad(m, d, ms, o)

SpecTextures == Init /\ [][NextTextures]_vars

\* Scenes for the walk of the importer: trees of up to three nodes over one
\* mesh table, without bones. The table holds a triangle mesh, a line mesh, a
\* point mesh, a polygon mesh, a mesh of points and triangles, a mesh with no
\* primitive type and one of an unknown type, each with its own vertex count.
WalkMesh(mPrimitiveTypes, mNumVertices, mNormals, mColors, mFaces) ==
  [mPrimitiveTypes |-> mPrimitiveTypes, mNumVertices |-> mNumVertices,
   mNormals |-> mNormals, mColors |-> mColors, diffuse |-> FALSE,
   mTextureCoords |-> mNormals, mFaces |-> mFaces, mBones |-> <<>>]

WalkMeshes ==
  << WalkMesh(aiPrimitiveType_TRIANGLE, 3, TRUE, FALSE, << <<0, 1, 2>> >>),
     WalkMesh(aiPrimitiveType_LINE, 2, FALSE, TRUE, <<>>),
     WalkMesh(aiPrimitiveType_POINT, 1, FALSE, FALSE, <<>>),
     WalkMesh(aiPrimitiveType_POLYGON, 4, FALSE, FALSE, << <<0, 1, 2, 3>> >>),
     WalkMesh(aiPrimitiveType_POINT + aiPrimitiveType_TRIANGLE, 5, FALSE, FALSE, <<>>),
     WalkMesh(0, 6, FALSE, FALSE, <<>>),
     WalkMesh(2 * aiPrimitiveType_POLYGON, 7, FALSE, FALSE, <<>>) >>

NodeMeshLists ==
  {<<>>, <<1>>, <<2>>, <<3, 2>>, <<4, 3>>, <<5, 6, 7>>}

\* For each node its children: the root alone, a root with a child, a root
\* with two children in either order, and a chain of three.
TreeShapes ==
  { << <<>> >>,
    << <<2>>, <<>> >>,
    << <<2, 3>>, <<>>, <<>> >>,
    << <<3, 2>>, <<>>, <<>> >>,
    << <<2>>, <<3>>, <<>> >> }

\* The place of the parent of node k in a tree given by the children of each
\* node, NULL for the root; and the names of the nodes by their places.
ParentIn(shape, k) ==
  IF \E q \in 1..Len(shape) : \E c \in 1..Len(shape[q]) : shape[q][c] = k
    THEN CHOOSE q \in 1..Len(shape) : \E c \in 1..Len(shape[q]) : shape[q][c] = k
    ELSE NULL

NodeNames == <<"root", "arm", "hand">>

WalkScenes ==
  UNION {{[id |-> id, mMeshes |-> WalkMeshes, mAnimations |-> <<>>,
           nodes |-> [k \in 1..Len(shape) |->
                        [mName |-> NodeNames[k],
                         mTransformation |->
                           << <<1, 0, 0, 0>>, <<0, 1, 0, 0>>,
                              <<0, 0, 1, 0>>, <<0, 0, 0, 1>> >>,
                         mParent |-> ParentIn(shape, k),
                         mMeshes |-> lists[k], mChildren |-> shape[k]]]]
            : lists \in [1..Len(shape) -> NodeMeshLists], id \in {1, 2}}
         : shape \in TreeShapes}

\* The caller imports one scene.
NextImport ==
  \/ Running /\ lastCall = NoCall
       /\ \E sc \in WalkScenes, p \in Programs : PrivateLoadModel(sc, p)
  \/ Running /\ \E p \in Programs : DeleteProgram(p)

SpecImport == Init /\ [][NextImport]_vars

\* Scenes of one node with one skinned mesh of one or two vertices. A bone
\* holds vertex 0 with weight 1, vertex 0 with weight 0, or vertex 0 with
\* weight 1 and vertex 1 with weight 2; a mesh has up to MAX_BONES + 1 bones.
VertexWeight(mVertexId, mWeight) == [mVertexId |-> mVertexId, mWeight |-> mWeight]

Bone(mName, mOffsetMatrix, mWeights) ==
  [mName |-> mName, mOffsetMatrix |-> mOffsetMatrix, mWeights |-> mWeights]

Bones ==
  { Bone("root", << <<1, 0, 0, 0>>, <<0, 1, 0, 0>>, <<0, 0, 1, 0>>, <<0, 0, 0, 1>> >>,
         << VertexWeight(0, 1) >>),
    Bone("arm", << <<1, 0, 0, 2>>, <<0, 1, 0, 0>>, <<0, 0, 1, 0>>, <<0, 0, 0, 1>> >>,
         << VertexWeight(0, 0) >>),
    Bone("root", << <<1, 0, 0, 0>>, <<0, 1, 0, 3>>, <<0, 0, 1, 0>>, <<0, 0, 0, 1>> >>,
         << VertexWeight(0, 1), VertexWeight(1, 2) >>) }

BoneLists == UNION {[1..k -> Bones] : k \in 0..(MAX_BONES + 1)}

SkinnedScene(mNumVertices, mBones) ==
  [id |-> 1,
   mMeshes |-> << [mPrimitiveTypes |-> aiPrimitiveType_TRIANGLE,
                   mNumVertices |-> mNumVertices,
                   mNormals |-> FALSE, mColors |-> FALSE, diffuse |-> FALSE,
                   mTextureCoords |-> FALSE, mFaces |-> <<>>,
                   mBones |-> mBones] >>,
   mAnimations |-> <<>>,
   nodes |-> << [mName |-> "root",
                 mTransformation |->
                   << <<1, 0, 0, 0>>, <<0, 1, 0, 0>>, <<0, 0, 1, 0>>, <<0, 0, 0, 1>> >>,
                 mParent |-> NULL,
                 mMeshes |-> <<1>>, mChildren |-> <<>>] >>]

SkinnedScenes == {SkinnedScene(n, bs) : n \in {1, 2}, bs \in BoneLists}

\* The caller imports one skinned scene.
NextBones ==
  \/ Running /\ lastCall = NoCall
       /\ \E sc \in SkinnedScenes, p \in Programs : PrivateLoadModel(sc, p)

SpecBones == Init /\ [][NextBones]_vars

\* Scenes for the animation code: no animation or one, of 1 or 2 ticks per
\* second and a duration of 2 or 4 ticks, with no channel, a channel for the
\* node "root", a channel for "arm" and then one for "root", or two channels
\* for "root". A track has one, two or three keys at increasing times.
Key(mTime, mValue) == [mTime |-> mTime, mValue |-> mValue]

Vec3Tracks ==
  { << Key(0, <<3, 0, 0>>) >>,
    << Key(0, <<0, 0, 0>>), Key(1, <<10, 0, 0>>) >>,
    << Key(0, <<0, 0, 0>>), Key(1, <<10, 0, 0>>), Key(2, <<0, 4, 0>>) >>,
    << Key(1, <<1, 1, 1>>), Key(2, <<2, 2, 2>>), Key(4, <<5, 5, 5>>) >> }

QuatTracks ==
  { << Key(0, "q0") >>,
    << Key(0, "q0"), Key(2, "q1") >>,
    << Key(0, "q0"), Key(1, "q1"), Key(2, "q2") >> }

Channel(mNodeName, position, rotation, scaling) ==
  [mNodeName |-> mNodeName, mPositionKeys |-> position,
   mRotationKeys |-> rotation, mScalingKeys |-> scaling]

ChannelLists ==
  {<<>>}
    \cup {<< Channel("root", p, r, s) >> :
            p \in Vec3Tracks, r \in QuatTracks, s \in Vec3Tracks}
    \cup {<< Channel("arm", p, r, p), Channel("root", s, r, s) >> :
            p \in Vec3Tracks, r \in QuatTracks, s \in Vec3Tracks}
    \cup {<< Channel("root", p, << Key(0, "q0") >>, p),
              Channel("root", s, << Key(0, "q1") >>, s) >> :
            p \in Vec3Tracks, s \in Vec3Tracks}

Animations ==
  {[mTicksPerSecond |-> tps, mDuration |-> d, mChannels |-> cs] :
     tps \in {1, 2}, d \in {2, 4}, cs \in ChannelLists}

AnimScenes == {[mAnimations |-> <<>>]} \cup {[mAnimations |-> <<a>>] : a \in Animations}

\* The identity and a matrix with a translation in its last column.
NodeTransformations ==
  { << <<1, 0, 0, 0>>, <<0, 1, 0, 0>>, <<0, 0, 1, 0>>, <<0, 0, 0, 1>> >>,
    << <<1, 0, 0, 5>>, <<0, 2, 0, 6>>, <<0, 0, 1, 7>>, <<0, 0, 0, 1>> >> }

AnimNodes ==
  {[mName |-> name, mTransformation |-> m] :
     name \in {"root", "arm", "leg"}, m \in NodeTransformations}

AnimationNums == {0, 1, 2}
Times == {-2, -1, 0, 1, 2, 3}

\* The caller asks for the matrix of one node.
NextAnim ==
  \/ Running /\ lastCall = NoCall
       /\ \E scene \in AnimScenes, node \in AnimNodes,
                   animationNum \in AnimationNums, t \in Times :
       PrivateNodeMatrix(scene, node, animationNum, t)

SpecAnim == Init /\ [][NextAnim]_vars

\* Scenes for kuhl_load_model and kuhl_update_model. The tree is the root
\* alone, a root with a child, a chain of three or a root with two children;
\* the root has the identity or another matrix. Mesh 1 has no bones, mesh 2
\* has the bones of one of three lists; the last node has one of the two, and
\* the root may have mesh 1 as well. There is no animation, one with a channel
\* for "arm", or one with channels for "root" and "arm".
PoseShapes ==
  << << <<>> >>,
     << <<2>>, <<>> >>,
     << <<2>>, <<3>>, <<>> >>,
     << <<2, 3>>, <<>>, <<>> >> >>

PoseTransformations(rootTransformation) ==
  << rootTransformation,
     << <<1, 0, 0, 1>>, <<0, 1, 0, 0>>, <<0, 0, 1, 0>>, <<0, 0, 0, 1>> >>,
     << <<2, 0, 0, 0>>, <<0, 2, 0, 0>>, <<0, 0, 2, 0>>, <<0, 0, 0, 1>> >> >>

RootTransformations ==
  << << <<1, 0, 0, 0>>, <<0, 1, 0, 0>>, <<0, 0, 1, 0>>, <<0, 0, 0, 1>> >>,
     << <<1, 0, 0, 5>>, <<0, 2, 0, 6>>, <<0, 0, 1, 7>>, <<0, 0, 0, 1>> >> >>

PoseBone(mName, x) ==
  Bone(mName, << <<1, 0, 0, x>>, <<0, 1, 0, 0>>, <<0, 0, 1, 0>>, <<0, 0, 0, 1>> >>,
       << VertexWeight(0, 1) >>)

PoseBoneLists ==
  << << PoseBone("arm", 2) >>,
     << PoseBone("root", 0), PoseBone("hand", 3) >>,
     << PoseBone("tail", 4) >> >>

PoseMeshes(mBones) ==
  << WalkMesh(aiPrimitiveType_POINT, 1, FALSE, FALSE, <<>>),
     [WalkMesh(aiPrimitiveType_TRIANGLE, 1, FALSE, FALSE, <<>>)
        EXCEPT !.mBones = mBones] >>

PoseChannel(mNodeName, x) ==
  Channel(mNodeName,
          << Key(0, <<0, 0, 0>>), Key(2, <<x, 0, 0>>) >>,
          << Key(0, "q0") >>,
          << Key(0, <<1, 1, 1>>) >>)

PoseAnimations ==
  << <<>>,
     << [mTicksPerSecond |-> 1, mDuration |-> 2,
         mChannels |-> << PoseChannel("arm", 10) >>] >>,
     << [mTicksPerSecond |-> 1, mDuration |-> 2,
         mChannels |-> << PoseChannel("root", 4), PoseChannel("arm", 10) >>] >> >>

\* The meshes of node k: rootMesh says whether the root has mesh 1, lastMesh
\* is the mesh of the last node.
PoseNodeMeshes(shape, k, rootMesh, lastMesh) ==
  (IF k = 1 /\ rootMesh THEN <<1>> ELSE <<>>)
    \o (IF k = Len(shape) THEN <<lastMesh>> ELSE <<>>)

\* The scene of the given choices; its id is its own.
PoseScene(s, r, rootMesh, lastMesh, b, a) ==
  [id |-> 1 + (s - 1) + 4 * ((r - 1) + 2 * ((IF rootMesh THEN 1 ELSE 0)
             + 2 * ((lastMesh - 1) + 2 * ((b - 1) + 3 * (a - 1))))),
   mMeshes |-> PoseMeshes(PoseBoneLists[b]),
   mAnimations |-> PoseAnimations[a],
   nodes |-> [k \in 1..Len(PoseShapes[s]) |->
                [mName |-> NodeNames[k],
                 mTransformation |-> PoseTransformations(RootTransformations[r])[k],
                 mParent |-> ParentIn(PoseShapes[s], k),
                 mMeshes |-> PoseNodeMeshes(PoseShapes[s], k, rootMesh, lastMesh),
                 mChildren |-> PoseShapes[s][k]]]]

PoseScenes ==
  {PoseScene(s, r, rootMesh, 1, 1, a) :
     s \in 1..4, r \in 1..2, rootMesh \in BOOLEAN, a \in 1..3}
    \cup {PoseScene(s, r, rootMesh, 2, b, a) :
            s \in 1..4, r \in 1..2, rootMesh \in BOOLEAN, b \in 1..3, a \in 1..3}

\* g->assimp_scene: the scene the pointer refers to.
PoseSceneTable ==
  [id \in {sc.id : sc \in PoseScenes} |-> CHOOSE sc \in PoseScenes : sc.id = id]

SceneAt(id) == PoseSceneTable[id]

\* What kuhl_update_model is called with: an animation number and a time.
\* The animations last 2 seconds and no scene has an animation 1.
PoseCalls == {<<0, -1>>, <<0, 0>>, <<0, 1>>, <<0, 3>>, <<1, 1>>}

\* ------------------------------------------------------- kuhl_update_model
\* transformResult of kuhl_private_node_matrix as a factor of a product.
TransformResult(r) == IF r.ret = 0 THEN [matrix |-> r.matrix] ELSE [anim |-> r.anim]

\* A start that keeps the matrix of the call before.
UpdateStart_Keep(matrix) == matrix

\* Lines 2972 and 3006: mat4f_identity on the matrix that is about to be
\* computed.
UpdateStart(matrix) == Mat4fIdentity

\* A step with the factors the other way round.
ChainStep_Reversed(transform, matrix) == Mat4fMultProducts(matrix, transform)

\* Lines 2977 and 3011: matrix = transform * matrix.
ChainStep(transform, matrix) == Mat4fMultProducts(transform, matrix)

\* Lines 2973-2979 and 3007-3013: the do-while loop from node up to the root.
RECURSIVE NodeChain(_, _, _, _, _)
NodeChain(scene, node, animationNum, time, matrix) ==
  LET transform == Mat4fFactor(TransformResult(
                     NodeMatrix(scene, scene.nodes[node], animationNum, time)))
      m == ChainStep(transform, matrix)
  IN IF scene.nodes[node].mParent = NULL THEN m
     ELSE NodeChain(scene, scene.nodes[node].mParent, animationNum, time, m)

\* kuhl_assimp_find_node, lines 1994-2006: node itself, else the first hit in
\* its children from the i-th on, else NULL.
RECURSIVE FindNode(_, _, _)
RECURSIVE FindNodeInChildren(_, _, _, _)
FindNode(scene, nodeName, node) ==
  IF scene.nodes[node].mName = nodeName THEN node
  ELSE FindNodeInChildren(scene, nodeName, node, 1)

FindNodeInChildren(scene, nodeName, node, i) ==
  IF i > Len(scene.nodes[node].mChildren) THEN NULL
  ELSE LET foundNode == FindNode(scene, nodeName, scene.nodes[node].mChildren[i])
       IN IF foundNode # NULL THEN foundNode
          ELSE FindNodeInChildren(scene, nodeName, node, i + 1)

\* Lines 2987-3020: the bones from b on. The result is the matrices and
\* whether exit was called.
RECURSIVE UpdateBones(_, _, _, _, _)
UpdateBones(scene, bones, animationNum, time, b) ==
  IF b >= bones.count THEN [matrices |-> bones.matrices, exited |-> FALSE]
  ELSE LET bone == bones.boneList[b + 1]
           node == FindNode(scene, bone.mName, 1)
           chain == NodeChain(scene, node, animationNum, time,
                              UpdateStart(bones.matrices[b]))
           offset == Mat4fFactor([matrix |-> Mat4fFromAiMatrix4x4(bone.mOffsetMatrix)])
       IN IF node = NULL THEN [matrices |-> bones.matrices, exited |-> TRUE]
          ELSE UpdateBones(scene,
                           [bones EXCEPT !.matrices[b] = Mat4fMultProducts(chain, offset)],
                           animationNum, time, b + 1)

\* Lines 2947-3021 for one struct G of the list: the struct afterwards and
\* whether exit was called.
UpdateGeom(G, animationNum, time) ==
  LET scene == SceneAt(G.assimp_scene)
      node == G.assimp_node
      U == UpdateBones(scene, G.bones, animationNum, time, 0)
  IN IF G.assimp_scene = NULL THEN [g |-> G, exited |-> FALSE]
     ELSE IF Len(scene.mAnimations) = 0 \/ node = NULL THEN [g |-> G, exited |-> FALSE]
     ELSE IF G.bones = NoBones
       THEN [g |-> [G EXCEPT !.matrix = NodeChain(scene, node, animationNum, time,
                                                  UpdateStart(G.matrix))],
             exited |-> FALSE]
     ELSE [g |-> [G EXCEPT !.bones.matrices = U.matrices], exited |-> U.exited]

\* Lines 2945-3022: the structs from g on along next.
RECURSIVE UpdateModel(_, _, _, _)
UpdateModel(gs, g, animationNum, time) ==
  IF g = NULL THEN [geom |-> gs, exited |-> FALSE]
  ELSE LET u == UpdateGeom(gs[g], animationNum, time)
       IN IF u.exited THEN [geom |-> [gs EXCEPT ![g] = u.g], exited |-> TRUE]
          ELSE UpdateModel([gs EXCEPT ![g] = u.g], gs[g].next, animationNum, time)

\* A call of kuhl_update_model. prev tells what the call before was given,
\* baked is handed on from the call of kuhl_load_model.
KuhlUpdateModel(first_geom, animationNum, time) ==
  \E U \in {UpdateModel(geom, first_geom, animationNum, time)} :
     /\ geom' = U.geom
     /\ exited' = U.exited
     /\ lastCall' = [op |-> "kuhl_update_model", scene |-> lastCall.scene,
                     first_geom |-> first_geom, baked |-> lastCall.baked,
                     animationNum |-> animationNum, time |-> time,
                     prev |-> IF lastCall.op = "kuhl_update_model"
                                THEN <<lastCall.animationNum, lastCall.time>>
                                ELSE <<>>]
     /\ UNCHANGED <<liveVAOs, liveBuffers, livePrograms, liveTextures, dev,
                    bufOwner, vaoOwner, lastDraw, delStack, textureIdMap>>

\* kuhl_load_model, lines 3043-3089, on a scene that ASSIMP has read and
\* whose materials have no texture, so that kuhl_private_assimp_load leaves
\* the textures alone: kuhl_private_load_model on the root with the identity,
\* then kuhl_update_model(ret, 0, -1). The bounding box goes to the caller.
\* baked tells the matrix each struct had when kuhl_private_load_model
\* returned.
KuhlLoadModel(sc, program) ==
  \E heap \in HeapFills :
  \E R \in {LoadNode([World EXCEPT !.heap = heap], sc, 1, program, Mat4fIdentity)} :
  \E U \in {IF Stopped(R.w) THEN [geom |-> R.w.geom, exited |-> R.w.exited]
             ELSE UpdateModel(R.w.geom, R.first_geom, 0, -1)} :
     /\ ~R.w.full
     /\ geom' = U.geom
     /\ liveVAOs' = R.w.liveVAOs
     /\ liveBuffers' = R.w.liveBuffers
     /\ bufOwner' = R.w.bufOwner
     /\ vaoOwner' = R.w.vaoOwner
     /\ dev' = R.w.dev
     /\ exited' \in {U.exited} \cup (IF R.w.outside # {} THEN {TRUE} ELSE {})
     /\ lastCall' = [op |-> "kuhl_load_model", scene |-> sc.id, program |-> program,
                     first_geom |-> R.first_geom, heap |-> heap,
                     baked |-> [n \in Nodes |-> R.w.geom[n].matrix]]
     /\ lastDraw' = NoDraw
     /\ UNCHANGED <<livePrograms, liveTextures, delStack, textureIdMap>>

\* The caller loads one model and then sets it to one time after another.
NextPose ==
  \/ Running /\ lastCall = NoCall
       /\ \E sc \in PoseScenes, p \in Programs : KuhlLoadModel(sc, p)
  \/ Running /\ lastCall.op \in {"kuhl_load_model", "kuhl_update_model"}
       /\ \E call \in PoseCalls :
            KuhlUpdateModel(lastCall.first_geom, call[1], call[2])

SpecPose == Init /\ [][NextPose]_vars

\* Scenes for the transform of the importer: the trees of the walk, the root
\* with the identity or another matrix, the second node moved and the third
\* scaled; a node has no mesh, the point mesh, the polygon mesh and then the
\* point mesh, or the triangle mesh.
TransformMeshLists == {<<>>, <<3>>, <<4, 3>>, <<1>>}

TransformScenes ==
  UNION {{[id |-> 1, mMeshes |-> WalkMeshes, mAnimations |-> <<>>,
           nodes |-> [k \in 1..Len(shape) |->
                        [mName |-> NodeNames[k],
                         mTransformation |->
                           PoseTransformations(RootTransformations[r])[k],
                         mParent |-> ParentIn(shape, k),
                         mMeshes |-> lists[k], mChildren |-> shape[k]]]]
            : lists \in [1..Len(shape) -> TransformMeshLists], r \in 1..2}
         : shape \in TreeShapes}

\* The caller imports one scene, or has the box of one scene computed.
NextTransform ==
  \/ Running /\ lastCall = NoCall
       /\ \E sc \in TransformScenes, p \in Programs : PrivateLoadModel(sc, p)
  \/ Running /\ lastCall = NoCall
       /\ \E sc \in TransformScenes : PrivateCalcBBox(sc)

SpecTransform == Init /\ [][NextTransform]_vars

\* Boxes with xmin <= xmax, ymin <= ymax, zmin <= zmax, around the origin and
\* away from it, none of size 0 in all three directions; the matrices are
\* NULL, the identity, a scale by 2, a quarter turn about z and a translation
\* by (1, 0, 0).
Intervals == {<<-1, 1>>, <<-2, 2>>, <<-3, 3>>, <<1, 2>>, <<-2, -1>>, <<0, 0>>}

Boxes ==
  {[p \in 0..5 |-> CASE p = 0 -> x[1] [] p = 1 -> x[2] [] p = 2 -> y[1]
                     [] p = 3 -> y[2] [] p = 4 -> z[1] [] OTHER -> z[2]] :
     x \in Intervals, y \in Intervals \ {<<0, 0>>}, z \in Intervals}

ColumnMajor(rows) == [i \in 0..15 |-> rows[(i % 4) + 1][(i \div 4) + 1]]

BBoxMatrices ==
  {<<>>,
   ColumnMajor(<< <<1, 0, 0, 0>>, <<0, 1, 0, 0>>, <<0, 0, 1, 0>>, <<0, 0, 0, 1>> >>),
   ColumnMajor(<< <<2, 0, 0, 0>>, <<0, 2, 0, 0>>, <<0, 0, 2, 0>>, <<0, 0, 0, 1>> >>),
   ColumnMajor(<< <<0, -1, 0, 0>>, <<1, 0, 0, 0>>, <<0, 0, 1, 0>>, <<0, 0, 0, 1>> >>),
   ColumnMajor(<< <<1, 0, 0, 1>>, <<0, 1, 0, 0>>, <<0, 0, 1, 0>>, <<0, 0, 0, 1>> >>)}

\* The caller makes one call about one box.
NextBBox ==
  \/ Running /\ lastCall = NoCall
       /\ \E bbox \in Boxes, mat \in BBoxMatrices, beyond \in {0, 1} :
            KuhlBBoxTransform(bbox, mat, beyond)
  \/ Running /\ lastCall = NoCall
       /\ \E bbox \in Boxes, sitOnXZPlane \in {0, 1} : KuhlBBoxFit(bbox, sitOnXZPlane)

SpecBBox == Init /\ [][NextBBox]_vars

\* C11: a kuhl_geometry_indices call with a count above 0 that is no multiple
\* of the vertices per primitive stops the process and leaves every struct as
\* it was; with a multiple the process goes on, indices_len is the count, the
\* stored values are the values passed and a newly generated buffer holds them.
C11_IndicesArity ==
  [][\A idx \in IndexCalls :
       (Len(idx) > 0 /\ geom[1].vao \in liveVAOs /\ Indices(1, idx))
       => IF Len(idx) % Arity(geom[1].primitive_type) # 0
            THEN exited' /\ geom' = geom /\ liveBuffers' = liveBuffers
            ELSE /\ ~exited'
                 /\ geom'[1].indices_len = Len(idx)
                 /\ geom'[1].indices = idx
                 /\ geom'[1].indices_bufferobject \in liveBuffers' \ liveBuffers]_vars

\* C11 witness: a struct of lines holds a list of four indices as passed in
\* (the process stopped later, on a list of odd length).
C11_Witness ==
  /\ exited
  /\ geom[1].primitive_type = "GL_LINES"
  /\ geom[1].indices = <<0, 1, 1, 0>>
  /\ geom[1].indices_len = 4
  /\ geom[1].indices_bufferobject \in liveBuffers

\* C12: while the process runs, a struct with indices_len > 0 has a
\* vertex_count of at least 1 and every index below vertex_count.
C12_IndicesBelowVertexCount ==
  \A n \in Nodes :
    (~exited /\ geom[n].indices_len > 0) =>
      /\ geom[n].vertex_count >= 1
      /\ \A i \in 1..Len(geom[n].indices) : geom[n].indices[i] < geom[n].vertex_count

\* C13: every draw call that kuhl_geometry_draw issues is for a struct that
\* passes kuhl_geometry_sanity_check (a struct that does not pass stops the
\* process instead).
C13_DrawAfterSanityCheck ==
  DrawReturned =>
    \A i \in 1..Len(lastDraw.calls) : SanityCheck(geom[lastDraw.calls[i].node])

\* C14: kuhl_geometry_append returns NULL for (NULL, NULL), a for (a, NULL)
\* and b for (NULL, b); for two lists that share no struct it returns a, the
\* list from a on is then the structs of a's list followed by those of b's
\* list, and its kuhl_geometry_count is the sum of the two counts. The count
\* of NULL is 0.
C14_AppendAndCount ==
  /\ [](GeometryCount(geom, NULL) = 0)
  /\ [][\A a, b \in Nodes \cup {NULL} :
          (Appendable(a, b) /\ GeometryAppend(a, b))
          => LET r == AppendReturn(a, b)
             IN /\ (a = NULL /\ b = NULL) => r = NULL
                /\ b = NULL => (r = a /\ geom' = geom)
                /\ a = NULL => (r = b /\ geom' = geom)
                /\ (a # NULL /\ b # NULL) =>
                     /\ r = a
                     /\ ListFrom(geom', r) = ListFrom(geom, a) \o ListFrom(geom, b)
                     /\ GeometryCount(geom', r)
                          = GeometryCount(geom, a) + GeometryCount(geom, b)]_vars

\* C14 witness: struct 3 was appended to the list of structs 1 and 2, and the
\* list from struct 1 on counts three.
C14_Witness ==
  /\ ListFrom(geom, 1) = <<1, 2, 3>>
  /\ GeometryCount(geom, 1) = 3

\* The (node, mesh) pairs of the subtree of node nd in depth-first pre-order
\* that are accepted: the mesh is of points only, lines only or triangles only.
AcceptedMesh(mesh) ==
  mesh.mPrimitiveTypes
    \in {aiPrimitiveType_POINT, aiPrimitiveType_LINE, aiPrimitiveType_TRIANGLE}

RECURSIVE MeshPairs(_, _, _)
MeshPairs(sc, nd, n) ==
  IF n > Len(sc.nodes[nd].mMeshes) THEN <<>>
  ELSE (IF AcceptedMesh(sc.mMeshes[sc.nodes[nd].mMeshes[n]])
          THEN << [node |-> nd, mesh |-> sc.nodes[nd].mMeshes[n]] >>
          ELSE <<>>)
         \o MeshPairs(sc, nd, n + 1)

RECURSIVE ChildPairs(_, _, _)
RECURSIVE PreOrder(_, _)
ChildPairs(sc, nd, i) ==
  IF i > Len(sc.nodes[nd].mChildren) THEN <<>>
  ELSE PreOrder(sc, sc.nodes[nd].mChildren[i]) \o ChildPairs(sc, nd, i + 1)

PreOrder(sc, nd) == MeshPairs(sc, nd, 1) \o ChildPairs(sc, nd, 1)

\* C15: when kuhl_private_load_model returns for a scene, the list it returns
\* holds one struct per accepted (node, mesh) pair of the scene, in depth-first
\* pre-order (the meshes of a node in the order of its mesh list, then the
\* subtree of each child in the order of the children), no struct twice; each
\* struct has the vertex count of its mesh and the node and the scene it came
\* from in assimp_node and assimp_scene.
C15_ImportPreOrder ==
  [][(lastCall' # lastCall /\ lastCall'.op = "kuhl_private_load_model" /\ ~exited')
       => LET sc == lastCall'.sc
              list == ListFrom(geom', lastCall'.first_geom)
              pairs == PreOrder(sc, 1)
          IN /\ Len(list) = Len(pairs)
             /\ \A i, j \in 1..Len(list) : i # j => list[i] # list[j]
             /\ \A i \in 1..Len(list) :
                  /\ geom'[list[i]].vertex_count
                       = sc.mMeshes[pairs[i].mesh].mNumVertices
                  /\ geom'[list[i]].assimp_node = pairs[i].node
                  /\ geom'[list[i]].assimp_scene = sc.id]_vars

\* C15 witness: the import of scene 2 returned a list of two structs: the
\* point mesh (1 vertex) of the second child, which the root lists first, and
\* then the line mesh (2 vertices) of the first child.
C15_Witness ==
  /\ ~exited
  /\ lastCall.op = "kuhl_private_load_model"
  /\ lastCall.sc.id = 2
  /\ Len(ListFrom(geom, lastCall.first_geom)) = 2
  /\ LET list == ListFrom(geom, lastCall.first_geom)
     IN /\ geom[list[1]].assimp_node = 3
        /\ geom[list[1]].vertex_count = 1
        /\ geom[list[1]].assimp_scene = 2
        /\ geom[list[2]].assimp_node = 2
        /\ geom[list[2]].vertex_count = 2

\* C16: textureIdMap never holds two entries with the same path. A call of
\* kuhl_private_assimp_load reads (uploads) no path twice and no path that
\* textureIdMap held before the call, whether with a texture or with 0 after
\* a failed upload; unless the process stops, every path it read is in
\* textureIdMap afterwards, and the entries of before are kept. So over any
\* sequence of imports a path is uploaded at most once.
C16_TextureCache ==
  /\ [](\A i, j \in 1..Len(textureIdMap) :
          i # j => textureIdMap[i].textureFileName # textureIdMap[j].textureFileName)
  /\ [][lastCall'.op = "kuhl_private_assimp_load"
        => LET uploads == lastCall'.uploads
           IN /\ \A i, j \in 1..Len(uploads) : i # j => uploads[i] # uploads[j]
              /\ \A i \in 1..Len(uploads) : ~AlreadyExists(textureIdMap, uploads[i])
              /\ ~exited' =>
                   \A i \in 1..Len(uploads) : AlreadyExists(textureIdMap', uploads[i])
              /\ Len(textureIdMap') >= Len(textureIdMap)
              /\ SubSeq(textureIdMap', 1, Len(textureIdMap)) = textureIdMap]_vars

\* C16 witness: the latest import named two paths that textureIdMap held, one
\* with a texture and one with the 0 of a failed upload, and read no file.
C16_Witness ==
  /\ ~exited
  /\ lastCall.op = "kuhl_private_assimp_load"
  /\ lastCall.uploads = <<>>
  /\ \E i, j \in 1..Len(lastCall.skipped) :
       \E a, b \in 1..Len(textureIdMap) :
         /\ textureIdMap[a].textureFileName = lastCall.skipped[i]
         /\ textureIdMap[a].textureID = 0
         /\ textureIdMap[b].textureFileName = lastCall.skipped[j]
         /\ textureIdMap[b].textureID \in liveTextures

\* The skinned mesh of the latest import and whether its bones were gone
\* through: it has bones, no more than MAX_BONES, and a live program.
ImportedMesh(call) == call.sc.mMeshes[1]

BonesRead(call) ==
  /\ call.op = "kuhl_private_load_model"
  /\ call.program \in livePrograms
  /\ Len(ImportedMesh(call).mBones) \in 1..MAX_BONES

\* Some influence with a weight that is not zero refers to vertex i.
HasWeight(mesh, i) ==
  \E j \in 1..Len(mesh.mBones) : \E k \in 1..Len(mesh.mBones[j].mWeights) :
    /\ mesh.mBones[j].mWeights[k].mVertexId = i
    /\ mesh.mBones[j].mWeights[k].mWeight # 0

\* C17: the import of a mesh with bones stops the process if and only if
\* some vertex of the mesh has zero total bone weight, that is no influence
\* with a non-zero weight refers to it.
C17_ExitIffZeroWeight ==
  [][(lastCall' # lastCall /\ BonesRead(lastCall'))
       => (exited' <=>
             \E i \in 0..(ImportedMesh(lastCall').mNumVertices - 1) :
               ~HasWeight(ImportedMesh(lastCall'), i))]_vars

\* C18: the import of a skinned mesh writes nowhere outside the two arrays of
\* 4 * vertex count floats, and when it is done the four slots of every
\* vertex hold the first four (bone index, weight) pairs found for the vertex
\* scanning the bones in order, and zeros after them.
C18_FourInfluences ==
  [][(lastCall' # lastCall /\ BonesRead(lastCall'))
       => LET mesh == ImportedMesh(lastCall')
          IN /\ lastCall'.outside = {}
             /\ \A i \in 0..(mesh.mNumVertices - 1) : \A c \in 0..3 :
                  LET refs == VertexRefs(mesh.mBones, i, 1)
                  IN IF c < Len(refs)
                       THEN /\ lastCall'.indices[i * 4 + c] = refs[c + 1].index
                            /\ lastCall'.weights[i * 4 + c] = refs[c + 1].weight
                       ELSE /\ lastCall'.indices[i * 4 + c] = 0
                            /\ lastCall'.weights[i * 4 + c] = 0]_vars

Increasing(keys) == \A j \in 1..(Len(keys) - 1) : keys[j].mTime < keys[j + 1].mTime

\* C20: when kuhl_private_node_matrix applies a channel whose tracks have
\* strictly increasing key times, and the time in ticks is the time of a key
\* of the position (scaling, rotation) track, the first and the last key
\* included, the interpolated position (scaling, rotation) is the value of
\* that key.
C20_KeyframePassThrough ==
  (lastCall.op = "kuhl_private_node_matrix" /\ lastCall.result.ret = 1) =>
    LET anim == lastCall.scene.mAnimations[lastCall.animationNum + 1]
        na == anim.mChannels[lastCall.result.channel]
        ticks == lastCall.t * anim.mTicksPerSecond
        mid == lastCall.result.anim
    IN (Increasing(na.mPositionKeys) /\ Increasing(na.mRotationKeys)
          /\ Increasing(na.mScalingKeys)) =>
         /\ \A k \in 1..Len(na.mPositionKeys) :
              na.mPositionKeys[k].mTime = ticks =>
                \A c \in 1..3 :
                  mid.positionValMid.num[c]
                    = na.mPositionKeys[k].mValue[c] * mid.positionValMid.den
         /\ \A k \in 1..Len(na.mScalingKeys) :
              na.mScalingKeys[k].mTime = ticks =>
                \A c \in 1..3 :
                  mid.scalingValMid.num[c]
                    = na.mScalingKeys[k].mValue[c] * mid.scalingValMid.den
         /\ \A k \in 1..Len(na.mRotationKeys) :
              na.mRotationKeys[k].mTime = ticks =>
                /\ mid.rotationValMid.from = na.mRotationKeys[k].mValue
                /\ mid.rotationValMid.num = 0

\* The eight corners of a box, and the box a matrix maps it into: the least
\* and the greatest x, y and z of the corners, each taken as (x, y, z, 1)
\* and multiplied by the matrix.
BoxCorners(bbox) ==
  {<<bbox[a], bbox[2 + b], bbox[4 + c]>> : a \in {0, 1}, b \in {0, 1}, c \in {0, 1}}

TightBox(bbox, mat) ==
  LET moved == {Mat4fMultVec4f(mat, [k \in 0..3 |-> IF k = 3 THEN 1 ELSE v[k + 1]]) :
                  v \in BoxCorners(bbox)}
      least(k) == CHOOSE x \in {m[k] : m \in moved} : \A m \in moved : x <= m[k]
      greatest(k) == CHOOSE x \in {m[k] : m \in moved} : \A m \in moved : x >= m[k]
  IN [p \in 0..5 |-> IF p % 2 = 0 THEN least(p \div 2) ELSE greatest(p \div 2)]

\* C21: kuhl_bbox_transform with the identity matrix leaves every box with
\* xmin <= xmax, ymin <= ymax, zmin <= zmax as it was, a box that does not
\* hold the origin included; with any matrix the box afterwards is the tight
\* axis-aligned box of the eight transformed corners.
C21_BBoxTransformTight ==
  (lastCall.op = "kuhl_bbox_transform" /\ lastCall.mat # <<>>) =>
    /\ lastCall.mat = IdentityMatrix => lastCall.result = lastCall.bbox
    /\ lastCall.result = TightBox(lastCall.bbox, lastCall.mat)

\* The greatest of the width, the height and the depth of a box.
MaxSize(bbox) ==
  LET sizes == {bbox[1] - bbox[0], bbox[3] - bbox[2], bbox[5] - bbox[4]}
  IN CHOOSE x \in sizes : \A y \in sizes : x >= y

\* The point (x, y, z, 1) under a matrix of fractions, as numerators over
\* the denominator of the matrix.
FitApplied(m, x, y, z) == Mat4fMultVec4f(m.num, [k \in 0..3 |-> <<x, y, z, 1>>[k + 1]])

\* C22: the matrix of kuhl_bbox_fit is a scale times a translation: it
\* scales the three axes by 1 / max(width, height, depth) and nothing else,
\* and it takes the centre of the box to the origin; with sitOnXZPlane set the
\* translation along y is -ymin instead, so that ymin goes to 0, while x and z
\* are still centred.
C22_BBoxFit ==
  lastCall.op = "kuhl_bbox_fit" =>
    LET b == lastCall.bbox
        m == lastCall.result
        t == lastCall.moveToOrigin
        low == FitApplied(m, 0, b[2], 0)
    IN /\ \A i \in 0..11 : m.num[i] * MaxSize(b) = (IF i % 5 = 0 THEN m.den ELSE 0)
       /\ m.num[15] = m.den
       /\ m.den # 0
       \* the centre is (min + max) / 2: both sides are doubled
       /\ 2 * m.num[12] = -m.num[0] * (b[0] + b[1])
       /\ 2 * m.num[14] = -m.num[10] * (b[4] + b[5])
       /\ lastCall.sitOnXZPlane = 0 => 2 * m.num[13] = -m.num[5] * (b[2] + b[3])
       /\ lastCall.sitOnXZPlane # 0 =>
            /\ t.num[13] = -b[2] * t.den
            /\ low[1] = 0

\* A box of size (2, 4, 6) around the origin is fitted to sit on the XZ plane:
\* the scale is 1/6 and ymin = -2 goes to 0.
C22_Witness ==
  /\ lastCall.op = "kuhl_bbox_fit"
  /\ lastCall.sitOnXZPlane # 0
  /\ lastCall.bbox = [p \in 0..5 |-> <<-1, 1, -2, 2, -3, 3>>[p + 1]]
  /\ lastCall.result.num[0] * 6 = lastCall.result.den
  /\ FitApplied(lastCall.result, 0, -2, 0)[1] = 0

\* The start and end index the bracketing rule gives for a track and a time:
\* the smallest k with ticks < key[k+1].time and k + 1, or the last key twice
\* when ticks is at or after the time of the last key. Key k of the rule is
\* keys[k + 1].
Bracket(keys, ticks) ==
  LET n == Len(keys)
      hits == {k \in 0..(n - 2) : ticks < keys[k + 2].mTime}
      k0 == CHOOSE k \in hits : \A h \in hits : k <= h
  IN IF ticks >= keys[n].mTime THEN [start |-> n - 1, end |-> n - 1]
     ELSE [start |-> k0, end |-> k0 + 1]

\* C23: for each of the position, rotation and scaling tracks of the channel
\* kuhl_private_node_matrix applies, with one key or more at strictly
\* increasing times, the start index is the smallest k with
\* ticks < key[k+1].time and the end index is k + 1; when ticks is at or after
\* the time of the last key, start and end are both the last key and the
\* interpolated value is the value of the last key.
C23_BracketingKeys ==
  (lastCall.op = "kuhl_private_node_matrix" /\ lastCall.result.ret = 1) =>
    LET anim == lastCall.scene.mAnimations[lastCall.animationNum + 1]
        na == anim.mChannels[lastCall.result.channel]
        ticks == lastCall.t * anim.mTicksPerSecond
        mid == lastCall.result.anim
        last(keys) == keys[Len(keys)]
    IN /\ Increasing(na.mPositionKeys) =>
            /\ mid.positionStart = Bracket(na.mPositionKeys, ticks).start
            /\ mid.positionEnd = Bracket(na.mPositionKeys, ticks).end
            /\ ticks >= last(na.mPositionKeys).mTime =>
                 \A c \in 1..3 :
                   mid.positionValMid.num[c]
                     = last(na.mPositionKeys).mValue[c] * mid.positionValMid.den
       /\ Increasing(na.mRotationKeys) =>
            /\ mid.rotationStart = Bracket(na.mRotationKeys, ticks).start
            /\ mid.rotationEnd = Bracket(na.mRotationKeys, ticks).end
            /\ ticks >= last(na.mRotationKeys).mTime =>
                 /\ mid.rotationValMid.from = last(na.mRotationKeys).mValue
                 /\ mid.rotationValMid.num = 0
       /\ Increasing(na.mScalingKeys) =>
            /\ mid.scalingStart = Bracket(na.mScalingKeys, ticks).start
            /\ mid.scalingEnd = Bracket(na.mScalingKeys, ticks).end
            /\ ticks >= last(na.mScalingKeys).mTime =>
                 \A c \in 1..3 :
                   mid.scalingValMid.num[c]
                     = last(na.mScalingKeys).mValue[c] * mid.scalingValMid.den

RECURSIVE RootPath(_, _)
RootPath(scene, node) ==
  IF scene.nodes[node].mParent = NULL THEN <<node>>
  ELSE Append(RootPath(scene, scene.nodes[node].mParent), node)

RECURSIVE ProductOf(_, _)
ProductOf(factors, k) ==
  IF k > Len(factors) THEN <<>> ELSE factors[k] \o ProductOf(factors, k + 1)

\* M(root) * ... * M(node) with M from kuhl_private_node_matrix.
HierarchyProduct(scene, node, animationNum, time) ==
  LET path == RootPath(scene, node)
  IN ProductOf([k \in 1..Len(path) |->
                  Mat4fFactor(TransformResult(
                    NodeMatrix(scene, scene.nodes[path[k]], animationNum, time)))], 1)

\* The product of the matrices the nodes themselves have, root first.
StaticProduct(scene, node) ==
  LET path == RootPath(scene, node)
  IN ProductOf([k \in 1..Len(path) |->
                  Mat4fFactor([matrix |-> [i \in 0..15 |->
                     scene.nodes[path[k]].mTransformation[(i % 4) + 1][(i \div 4) + 1]]])],
               1)

\* The structs of the list the latest call was about.
PoseList == {ListFrom(geom, lastCall.first_geom)[i] :
               i \in 1..Len(ListFrom(geom, lastCall.first_geom))}

\* C25: after kuhl_update_model(list, a, t), every struct of the list
\* without bones whose scene has one animation or more holds in matrix the
\* product M(root) * ... * M(parent) * M(node) of the matrices that
\* kuhl_private_node_matrix gives at (a, t) for its node and the ancestors of
\* the node, the root first.
C25_HierarchyProduct ==
  (lastCall.op = "kuhl_update_model" /\ ~exited) =>
    \A g \in PoseList :
      (geom[g].bones = NoBones /\ Len(SceneAt(geom[g].assimp_scene).mAnimations) >= 1) =>
        geom[g].matrix = HierarchyProduct(SceneAt(geom[g].assimp_scene),
                                          geom[g].assimp_node,
                                          lastCall.animationNum, lastCall.time)

\* C25 witness: at time 1 of animation 0 the struct of node "hand", the
\* grandchild of the root, holds the animated matrix of "root", then the
\* animated matrix of "arm", then the matrix of "hand" itself.
C25_Witness ==
  /\ lastCall.op = "kuhl_update_model"
  /\ ~exited
  /\ lastCall.animationNum = 0
  /\ lastCall.time = 1
  /\ \E g \in PoseList :
       LET scene == SceneAt(geom[g].assimp_scene)
       IN /\ geom[g].bones = NoBones
          /\ geom[g].assimp_node = 3
          /\ scene.nodes[3].mParent = 2
          /\ Len(geom[g].matrix) = 3
          /\ geom[g].matrix[1] = [anim |-> AnimMatrix(scene.mAnimations[1].mChannels[1], 1)]
          /\ geom[g].matrix[2] = [anim |-> AnimMatrix(scene.mAnimations[1].mChannels[2], 1)]
          /\ geom[g].matrix[3] = [matrix |-> Mat4fFromAiMatrix4x4(scene.nodes[3].mTransformation)]

\* The nodes of a scene named like a bone.
NamedLike(scene, bone) ==
  {k \in 1..Len(scene.nodes) : scene.nodes[k].mName = bone.mName}

\* The matrix of bone b at (animationNum, time): the product for the node
\* named like the bone, times the offset matrix of the bone.
BoneMatrix(scene, bone, animationNum, time) ==
  LET node == CHOOSE k \in NamedLike(scene, bone) : TRUE
  IN HierarchyProduct(scene, node, animationNum, time)
       \o Mat4fFactor([matrix |-> [i \in 0..15 |->
                         bone.mOffsetMatrix[(i % 4) + 1][(i \div 4) + 1]]])

\* C26: after kuhl_update_model(list, a, t), every struct of the list with
\* bones holds in matrices[b], for every b below count, the product
\* M(root) * ... * M(node) for the node named like bone b, times the offset
\* matrix of the bone; and if a bone of a struct of the list is named like no
\* node of the scene, the process has stopped.
C26_BoneMatrices ==
  lastCall.op = "kuhl_update_model" =>
    /\ (\E g \in PoseList : \E b \in 1..geom[g].bones.count :
          NamedLike(SceneAt(geom[g].assimp_scene), geom[g].bones.boneList[b]) = {})
         => exited
    /\ ~exited =>
         \A g \in PoseList : \A b \in 1..geom[g].bones.count :
           geom[g].bones.matrices[b - 1]
             = BoneMatrix(SceneAt(geom[g].assimp_scene), geom[g].bones.boneList[b],
                          lastCall.animationNum, lastCall.time)

C28_HistoryIndependent ==
  (lastCall.op \in {"kuhl_load_model", "kuhl_update_model"} /\ ~exited) =>
    \A once \in {[x \in PoseCalls |->
                    UpdateModel(geom, lastCall.first_geom, x[1], x[2])]} :
      \A x \in PoseCalls :
        /\ UpdateModel(once[x].geom, lastCall.first_geom, x[1], x[2]) = once[x]
        /\ \A other \in PoseCalls :
             ~once[other].exited =>
               UpdateModel(once[other].geom, lastCall.first_geom, x[1], x[2]) = once[x]

\* C28 witness: the model was set to time 0, then to time 1, and a struct
\* holds the animated matrices of time 1, which are not those of time 0.
C28_Witness ==
  /\ lastCall.op = "kuhl_update_model"
  /\ ~exited
  /\ lastCall.animationNum = 0
  /\ lastCall.time = 1
  /\ lastCall.prev = <<0, 0>>
  /\ \E g \in PoseList :
       LET scene == SceneAt(geom[g].assimp_scene)
       IN /\ geom[g].bones = NoBones
          /\ geom[g].matrix = HierarchyProduct(scene, geom[g].assimp_node, 0, 1)
          /\ geom[g].matrix # HierarchyProduct(scene, geom[g].assimp_node, 0, 0)
  /\ \E g \in PoseList :
       LET scene == SceneAt(geom[g].assimp_scene)
       IN /\ geom[g].bones.count >= 1
          /\ geom[g].bones.matrices[0]
               = BoneMatrix(scene, geom[g].bones.boneList[1], 0, 1)
          /\ geom[g].bones.matrices[0]
               # BoneMatrix(scene, geom[g].bones.boneList[1], 0, 0)

\* C29: when kuhl_load_model returns, every struct with bones holds a
\* defined matrix in each of the MAX_BONES slots a draw uploads: the matrix of
\* the bone in its bind pose below count, the identity from count on; this
\* with and without an animation in the scene.
C29_BoneSlotsDefined ==
  (lastCall.op = "kuhl_load_model" /\ ~exited) =>
    \A g \in PoseList : \A b \in 0..(MAX_BONES - 1) :
      geom[g].bones # NoBones =>
        /\ \A k \in 1..Len(geom[g].bones.matrices[b]) :
             geom[g].bones.matrices[b][k] \notin {[zero |-> TRUE], [stale |-> TRUE]}
        /\ b >= geom[g].bones.count => geom[g].bones.matrices[b] = Mat4fIdentity
        /\ b < geom[g].bones.count =>
             geom[g].bones.matrices[b]
               = BoneMatrix(SceneAt(geom[g].assimp_scene),
                            geom[g].bones.boneList[b + 1], 0, -1)

\* C30: the struct the importer makes of a mesh has bones if and only if the
\* mesh has one bone or more; then count is the number of bones of the mesh,
\* boneList[b] is bone b of the mesh for every b below count, and
\* matrices[b] is the identity for every b from count up to MAX_BONES - 1; a
\* mesh with more than MAX_BONES bones stops the process.
C30_BoneSet ==
  lastCall.op = "kuhl_private_load_model" =>
    LET mesh == ImportedMesh(lastCall)
        G == geom[lastCall.first_geom]
    IN /\ Len(mesh.mBones) > MAX_BONES => exited
       /\ ~exited =>
            /\ lastCall.first_geom # NULL
            /\ (G.bones # NoBones) <=> (Len(mesh.mBones) >= 1)
            /\ Len(mesh.mBones) >= 1 =>
                 /\ G.bones.count = Len(mesh.mBones)
                 /\ \A b \in 0..(G.bones.count - 1) :
                      G.bones.boneList[b + 1] = mesh.mBones[b + 1]
                 /\ \A b \in G.bones.count..(MAX_BONES - 1) :
                      G.bones.matrices[b] = Mat4fIdentity

\* C30 witness: a mesh with two bones that are not the same was imported,
\* and the struct has the two, in their order, and the identity in the slots
\* from 2 on, which kuhl_malloc had not left as the identity.
C30_Witness ==
  /\ lastCall.op = "kuhl_private_load_model"
  /\ ~exited
  /\ Len(ImportedMesh(lastCall).mBones) = 2
  /\ ImportedMesh(lastCall).mBones[1] # ImportedMesh(lastCall).mBones[2]
  /\ geom[lastCall.first_geom].bones.count = 2
  /\ geom[lastCall.first_geom].bones.boneList = ImportedMesh(lastCall).mBones
  /\ geom[lastCall.first_geom].bones.matrices[0] # Mat4fIdentity
  /\ \A b \in 2..(MAX_BONES - 1) :
       geom[lastCall.first_geom].bones.matrices[b] = Mat4fIdentity

\* The topology of a mesh of points only, lines only or triangles only.
TopologyOf(mPrimitiveTypes) ==
  CASE mPrimitiveTypes = aiPrimitiveType_POINT -> "GL_POINTS"
    [] mPrimitiveTypes = aiPrimitiveType_LINE -> "GL_LINES"
    [] mPrimitiveTypes = aiPrimitiveType_TRIANGLE -> "GL_TRIANGLES"

\* C31: when kuhl_private_load_model has returned for a scene, a mesh whose
\* mPrimitiveTypes has no bit, more than one bit, or only the polygon or an
\* unknown bit has no struct and no vertex array or buffer: the structs in use
\* are those of the returned list, one per accepted (node, mesh) pair of the
\* whole tree (the walk went on past every skipped mesh), there are as many
\* vertex arrays as accepted pairs, every buffer belongs to a struct of the
\* list, and a scene with no accepted mesh leaves no struct, vertex array or
\* buffer at all; point, line and triangle meshes have primitive_type
\* GL_POINTS, GL_LINES and GL_TRIANGLES.
C31_SkippedMeshes ==
  (lastCall.op = "kuhl_private_load_model" /\ ~exited) =>
    LET sc == lastCall.sc
        list == ListFrom(geom, lastCall.first_geom)
        pairs == PreOrder(sc, 1)
    IN /\ Len(list) = Len(pairs)
       /\ {n \in Nodes : geom[n] # ZeroGeom} = {list[i] : i \in 1..Len(list)}
       /\ Cardinality(liveVAOs) = Len(pairs)
       /\ \A i \in 1..Len(list) :
            /\ geom[list[i]].vao \in liveVAOs
            /\ geom[list[i]].primitive_type
                 = TopologyOf(sc.mMeshes[pairs[i].mesh].mPrimitiveTypes)
       /\ \A b \in liveBuffers : \E i \in 1..Len(list) : bufOwner[b] = list[i]
       /\ pairs = <<>> =>
            lastCall.first_geom = NULL /\ liveVAOs = {} /\ liveBuffers = {}

\* C31 witness: the root lists the polygon mesh and then the point mesh, its
\* child lists the mixed mesh, the mesh with no type and the mesh of an
\* unknown type: the import returned one struct, of GL_POINTS with 1 vertex.
C31_Witness ==
  /\ ~exited
  /\ lastCall.op = "kuhl_private_load_model"
  /\ Len(lastCall.sc.nodes) = 2
  /\ lastCall.sc.nodes[1].mMeshes = <<4, 3>>
  /\ lastCall.sc.nodes[2].mMeshes = <<5, 6, 7>>
  /\ ListFrom(geom, lastCall.first_geom) = <<lastCall.first_geom>>
  /\ geom[lastCall.first_geom].primitive_type = "GL_POINTS"
  /\ geom[lastCall.first_geom].vertex_count = 1
  /\ Cardinality(liveVAOs) = 1

C33_NewFields ==
  [][\A p \in Programs, vc \in {0, 3}, t \in {"GL_LINES", "GL_TRIANGLES"} :
       New(1, p, vc, t) =>
         IF p \in livePrograms
           THEN /\ ~exited'
                /\ geom'[1].program = p
                /\ geom'[1].vertex_count = vc
                /\ geom'[1].primitive_type = t
                /\ geom'[1].vao \in liveVAOs' \ liveVAOs
                /\ geom'[1].attrib_count = 0
                /\ geom'[1].texture_count = 0
                /\ geom'[1].indices = <<>>
                /\ geom'[1].indices_len = 0
                /\ geom'[1].indices_bufferobject = 0
                /\ geom'[1].matrix = Mat4fIdentity
                /\ geom'[1].has_been_drawn = 0
                /\ geom'[1].bones = NoBones
                /\ geom'[1].next = NULL
           ELSE exited']_vars

\* C33 witness: struct 1 was created a second time, with program 2, no
\* vertices and GL_LINES, after it had an attribute and indices, whose two
\* buffers are still there: it has no attribute, texture, indices or next.
C33_Witness ==
  /\ ~exited
  /\ Cardinality(liveVAOs) = 2
  /\ Cardinality(liveBuffers) = 2
  /\ liveTextures # {}
  /\ geom[1].vao \in liveVAOs
  /\ geom[1].program = 2
  /\ geom[1].vertex_count = 0
  /\ geom[1].primitive_type = "GL_LINES"
  /\ geom[1].attrib_count = 0
  /\ geom[1].texture_count = 0
  /\ geom[1].indices_len = 0
  /\ geom[1].has_been_drawn = 0
  /\ geom[1].next = NULL

\* The calls C34 is about.
AttribNoOp(n, c) ==
  c[3] = "" \/ n = NULL \/ ~c[1] \/ c[2] = 0 \/ geom[n].vao \notin liveVAOs

TextureNoOp(n, c) ==
  c[2] = "" \/ n = NULL \/ c[1] = 0 \/ c[1] \notin liveTextures

\* C34: a step of kuhl_geometry_attrib with an empty name, a NULL struct, a
\* NULL array, 0 components or a struct whose vao is no vertex array, and a
\* step of kuhl_geometry_texture with an empty name, a NULL struct, texture
\* 0 or a texture that is none, changes no field of any struct, makes and
\* deletes no vertex array, buffer, texture or program, and does not stop
\* the process.
C34_SilentNoOps ==
  [][/\ \A n \in SetterNodes, c \in AttribCalls :
          (AttribNoOp(n, c) /\ Attrib(n, c[1], c[2], c[3])) =>
            UNCHANGED <<geom, liveVAOs, liveBuffers, livePrograms, liveTextures,
                        bufOwner, vaoOwner, exited>>
     /\ \A n \in SetterNodes, c \in TextureCalls :
          (TextureNoOp(n, c) /\ Texture(n, c[1], c[2], FALSE)) =>
            UNCHANGED <<geom, liveVAOs, liveBuffers, livePrograms, liveTextures,
                        bufOwner, vaoOwner, exited>>]_vars

\* The (name, texture) pairs a struct holds.
Bindings(G) ==
  {<<G.textures[i].name, G.textures[i].textureId>> : i \in 1..G.texture_count}

\* Struct H is struct G with the pair name -> texture set: a pair of that
\* name is replaced and the count kept, else the pair is added and the count
\* is one more; nothing else differs.
BindingSet(G, H, name, texture) ==
  /\ Bindings(H) = {b \in Bindings(G) : b[1] # name} \cup {<<name, texture>>}
  /\ H.texture_count = IF \E b \in Bindings(G) : b[1] = name
                         THEN G.texture_count ELSE G.texture_count + 1
  /\ [H EXCEPT !.textures = G.textures, !.texture_count = G.texture_count] = G

\* C35: a step of kuhl_geometry_texture(n, texture, name, options) with a
\* name, a struct and a texture that pass the first tests, which does not
\* stop the process: with KG_FULL_LIST every struct of the list from n on
\* whose vao is a vertex array and whose program has the sampler holds the
\* pair name -> texture afterwards (a pair of that name replaced,
\* texture_count as before in that case), whether or not the head or another
\* struct of the list was skipped; every other struct is as before. Without
\* KG_FULL_LIST the same holds with struct n alone in place of the list.
C35_TextureFullList ==
  [][\A n \in {1, 2}, t \in 1..MaxTexIds, name \in TextureListNames,
        fullList \in BOOLEAN :
       (Texture(n, t, name, fullList) /\ t \in liveTextures /\ ~exited') =>
         \A list \in {IF fullList THEN ListFrom(geom, n) ELSE <<n>>} :
           \A m \in Nodes :
             IF /\ \E i \in 1..Len(list) : list[i] = m
                /\ geom[m].vao \in liveVAOs
                /\ name \in ActiveSamplers(geom[m].program)
               THEN BindingSet(geom[m], geom'[m], name, t)
               ELSE geom'[m] = geom[m]]_vars

\* C35 witness: in the list 1 -> 2 -> 3 the head was never created, struct 2
\* has program 2, which has no sampler tex2, and struct 3 has program 1:
\* struct 3 holds tex2, the two others hold nothing.
C35_Witness ==
  /\ ~exited
  /\ ListFrom(geom, 1) = <<1, 2, 3>>
  /\ geom[1].vao \notin liveVAOs
  /\ geom[2].vao \in liveVAOs /\ geom[2].program = 2
  /\ geom[3].vao \in liveVAOs /\ geom[3].program = 1
  /\ Bindings(geom[1]) = {}
  /\ Bindings(geom[2]) = {}
  /\ Bindings(geom[3]) = {<<"tex2", 1>>}

\* C36: after kuhl_geometry_draw, for every struct it drew: the k textures of
\* the struct that are bound (the texture is a texture and the program has
\* the sampler) are on the units 0, 1, ..., k-1 in the order of the slots,
\* the sampler uniform of each is set to the unit its texture is on, and no
\* two of them are on one unit.
C36_SequentialUnits ==
  lastDraw.head # NULL =>
    \A c \in 1..Len(lastDraw.calls) :
      \A B \in {TextureUnits(geom[lastDraw.calls[c].node], 0)} :
        /\ \A j \in 1..Len(B) : B[j].unit = j - 1
        /\ \A j \in 1..Len(B) : B[j].uniform = B[j].unit
        /\ \A j, k \in 1..Len(B) : j # k => B[j].unit # B[k].unit

\* The part of C36 the loop keeps when a slot is skipped: the unit is the
\* slot, so the units rise with the slots, each uniform is the unit of its
\* texture, and no unit is used twice.
C36_UnitIsSlot ==
  lastDraw.head # NULL =>
    \A c \in 1..Len(lastDraw.calls) :
      \A G \in {geom[lastDraw.calls[c].node]} :
        \A B \in {TextureUnits(G, 0)} :
          /\ \A j \in 1..Len(B) :
               /\ B[j].uniform = B[j].unit
               /\ B[j].unit < G.texture_count
               /\ G.textures[B[j].unit + 1].name = B[j].name
               /\ G.textures[B[j].unit + 1].textureId = B[j].textureId
          /\ \A j, k \in 1..Len(B) : j < k => B[j].unit < B[k].unit
          /\ \A j \in 1..Len(B) :
               BindTextures(G, ZeroDev, 0).texture[B[j].unit] = B[j].textureId

\* C36 witness: a draw of a struct whose first slot is skipped (its program
\* has no sampler tex2) and whose second slot is bound, on unit 1.
C36_Witness ==
  /\ lastDraw.head # NULL
  /\ Len(lastDraw.calls) >= 1
  /\ \E G \in {geom[lastDraw.calls[1].node]} :
       /\ G.texture_count = 2
       /\ G.textures[1].name = "tex2"
       /\ SamplerLocation(G.program, "tex2") = -1
       /\ Len(TextureUnits(G, 0)) = 1
       /\ TextureUnits(G, 0)[1].unit = 1
       /\ TextureUnits(G, 0)[1].name = "tex"

\* The step is a call of kuhl_geometry_draw that issued a draw call for
\* struct n.
DrawIssued(n) ==
  /\ \E h \in DrawnNodes : Draw(h)
  /\ \E c \in 1..Len(lastDraw'.calls) : lastDraw'.calls[c].node = n

\* The step is the end of kuhl_geometry_delete on struct n (lines 1377-1397).
DeleteReturns(n) ==
  /\ DeleteStep
  /\ delStack[Len(delStack)] = n
  /\ geom[n].next = NULL

\* The step is a call of kuhl_geometry_new on struct n.
NewCalled(n) == \E c \in DrawnNews : New(n, c[1], c[2], c[3])

\* On every step and every struct n: a message about the missing
\* GeomTransform is printed for n only by a draw for whose program
\* glGetUniformLocation gives -1, whose matrix is not the identity and whose
\* has_been_drawn is 0, and that draw leaves has_been_drawn at 1.
MessageOnlyOnFirstDraw(n) ==
  \A h \in DrawnNodes :
    Draw(h) =>
      \A c \in 1..Len(lastDraw'.calls) :
        (lastDraw'.calls[c].node = n /\ lastDraw'.calls[c].message) =>
          /\ GeomTransformLocation(geom[n].program) = -1
          /\ geom[n].matrix # Mat4fIdentity
          /\ geom[n].has_been_drawn = 0
          /\ geom'[n].has_been_drawn = 1

\* C37: on every step and every struct n: has_been_drawn goes from 0 to 1
\* only by a draw that issued a draw call for n, and from 1 to 0 only by
\* kuhl_geometry_delete of n; the message about the missing GeomTransform is
\* printed only when the program has no such uniform, the matrix is not the
\* identity and has_been_drawn is 0, so once at most while has_been_drawn
\* is not set back.
C37_DrawnOnlyByDrawClearedOnlyByDelete ==
  [][\A n \in DrawnNodes :
       /\ (geom[n].has_been_drawn = 0 /\ geom'[n].has_been_drawn = 1) => DrawIssued(n)
       /\ (geom[n].has_been_drawn = 1 /\ geom'[n].has_been_drawn = 0) => DeleteReturns(n)
       /\ MessageOnlyOnFirstDraw(n)]_vars

\* C37 as amended: has_been_drawn goes from 1 to 0 only by
\* kuhl_geometry_delete of n or by kuhl_geometry_new on n; the rest as in C37.
C37_DrawnStateMachine ==
  [][\A n \in DrawnNodes :
       /\ (geom[n].has_been_drawn = 0 /\ geom'[n].has_been_drawn = 1) => DrawIssued(n)
       /\ (geom[n].has_been_drawn = 1 /\ geom'[n].has_been_drawn = 0) =>
            (DeleteReturns(n) \/ NewCalled(n))
       /\ MessageOnlyOnFirstDraw(n)]_vars

\* C37 witness: kuhl_geometry_draw was called on a struct that had been
\* drawn, whose program has no GeomTransform and whose matrix is not the
\* identity: a draw call was issued and no message printed.
C37_Witness ==
  /\ lastDraw.head # NULL
  /\ Len(lastDraw.calls) = 1
  /\ \E G \in {geom[lastDraw.calls[1].node]} :
       /\ GeomTransformLocation(G.program) = -1
       /\ G.matrix # Mat4fIdentity
       /\ G.has_been_drawn = 1
       /\ ~lastDraw.calls[1].message

\* The vertex array and the GL_ARRAY_BUFFER buffer bound after the step are
\* those bound before it.
BindingsKept ==
  /\ dev'.vao = dev.vao
  /\ dev'.arrayBuffer = dev.arrayBuffer

\* C38: every call of kuhl_geometry_new, kuhl_geometry_attrib,
\* kuhl_geometry_indices, kuhl_geometry_program and kuhl_geometry_attrib_get
\* that returns leaves the bound vertex array and the bound array buffer as
\* they were when it was called, whatever the caller had bound.
C38_BindingsRestored ==
  [][~exited' =>
       /\ \A c \in BindingNews : New(c[1], c[2], c[3], c[4]) => BindingsKept
       /\ \A c \in BindingAttribs : Attrib(c[1], c[2], c[3], c[4]) => BindingsKept
       /\ \A c \in BindingIndices : Indices(c[1], c[2]) => BindingsKept
       /\ \A c \in BindingPrograms : Program(c[1], c[2], c[3]) => BindingsKept
       /\ \A c \in BindingGets : AttribGet(c[1], c[2], c[3]) => BindingsKept]_vars

\* Struct n was made by kuhl_geometry_new and deleted by
\* kuhl_geometry_delete since: only kuhl_geometry_new sets program, to a
\* program, and only kuhl_geometry_delete sets vao to 0.
Destroyed(n) == geom[n].vao = 0 /\ geom[n].program \in Programs

====
